---- MODULE Spec2Model ----
(***************************************************************************)
(* Control core of the bnn_cyclops SynthEngine (src/app/engine/            *)
(* synth_engine.h): the button / hold / freq-select logic of               *)
(* SynthEngine::Process, the ADSR envelope and the scale-degree selection. *)
(*                                                                         *)
(* Numbers.  The envelope value is a float in the source.  Here it is a    *)
(* fixed-point integer with One = 1.0; the resolution 1/sample_rate_ makes *)
(* the three per-sample steps of UpdateEnvelope integers (20, 1 and 8).    *)
(* Times are in milliseconds, pot values in thousandths.                   *)
(*                                                                         *)
(* One call of SynthEngine::Process is one tick.  The signal path of       *)
(* RenderOneSample (oscillator, filters, gain) never feeds back into the   *)
(* envelope or the button state and is not part of this state; the delay   *)
(* line is present through delay_.audible() only.                          *)
(***************************************************************************)
EXTENDS Integers, Sequences, FiniteSets, TLC

VARIABLES
    adsr_state_,                      \* ADSRState
    adsr_value_,                      \* envelope value, fixed point
    is_note_on_,                      \* note-on flag
    was_button_pressed_,              \* voice button at the previous tick
    was_freq_select_button_pressed_,  \* freq-select button at the previous tick
    delay_audible,                    \* what delay_.audible() returns
    previousTargetIndex_,             \* last scale degree (-1 after Init)
    pot_value,                        \* pitch pot of the last pitch update
    started,                          \* StartEnvelope ran in the last tick
    stopIdle,                         \* a StopEnvelope call of the last tick found Idle
    edges,                            \* parity of the voice button's rising edges
    note_phase,                       \* single-note scenario: fresh, held, released
    state_,                           \* device state (main.cpp)
    sm_pc,                            \* where the main loop is inside StateMachine
    synthReleaseCounter,              \* StateMachine's static counter
    analog_running,                   \* the converter runs and calls the audio callback
    play_button,                      \* play_button_.is_high(), as last sampled
    quiet_run,                        \* getActive() = false results in a row
    held_ticks,                       \* ticks in a row with the voice button down
    standby,                          \* StateMachine's argument, after the idle timeout test
    sample,                           \* what RenderOneSample returned
    aa_inputs,                        \* values passed to aa_filter_.Process, in order
    block_written,                    \* indices of block[] written
    phase_,                           \* oscillator phase, fixed point
    currentFrequency_,                \* oscillator frequency, fixed point
    path_calls,                       \* filters and delay that processed a sample in the last tick
    renders,                          \* samples rendered in full so far
    base_dutycycle,                   \* pulse generator: base duty cycle
    duty_cyclerandomization,          \* pulse generator: randomization amount
    current_dutycycle,                \* pulse generator: effective duty cycle
    randomizationcounter,             \* pulse generator: samples until the next refresh
    set_d,                            \* argument of the last SetBaseDutyCycle call
    gen_phase,                        \* arguments of the last GenerateSample call
    gen_dt,
    gen_naive,                        \* its uncorrected pulse value
    gen_sample,                       \* its return value
    gen_calls,                        \* GenerateSample calls since the last setter call
    vibrato_phase_,                   \* Vibrato::phase_, the LFO phase, fixed point
    depth_,                           \* Vibrato: live depth
    targetDepth_,                     \* Vibrato: target depth
    currentDepth_,                    \* Vibrato: ramp depth
    buildingUp_,                      \* Vibrato: buildup armed
    triggered,                        \* Trigger() has been called
    ramp_calls,                       \* Vibrato::Process calls since Trigger()
    fundamentalFreq_,                 \* base of the diatonic scale, fixed point
    targetFrequencyOffset_,           \* pitch wobble offset, fixed point
    offsetCounter_,                   \* ticks until the wobble offset expires
    in_pot,                           \* pot_value of the last Process call
    in_vib,                           \* vibrato_pot_val of the last Process call
    in_hold,                          \* hold of the last Process call
    last_call,                        \* the engine method called last
    filterMode_,                      \* FormantFilter: normal or wah
    currentVoice_,                    \* FormantFilter: voice type
    wahPosition_,                     \* FormantFilter: wah position, thousandths
    formantRate_,                     \* FormantFilter: morph rate, fixed point
    targetFormantFreqs_,              \* FormantFilter: target F1..F3, fixed point
    targetFormantQs_,                 \* FormantFilter: target Q1..Q3, fixed point
    currentFormantFreqs_,             \* FormantFilter: current F1..F3, fixed point
    currentFormantQs_,                \* FormantFilter: current Q1..Q3, fixed point
    in_wah,                           \* argument of the last SetWahPosition call
    formant_call,                     \* the FormantFilter method called last
    formant_updates,                  \* UpdateParameters calls so far
    in_vowel,                         \* the vowel std::rand() had ready in the last tick
    type_,                            \* ConsonantGenerator: consonant type
    consonant_state_,                 \* ConsonantGenerator: state_
    sampleCounter_,                   \* ConsonantGenerator: samples in the current state
    closureSamples_,                  \* ConsonantGenerator: length of the closure
    burstSamples_,                    \* ConsonantGenerator: length of the burst
    transitionSamples_,               \* ConsonantGenerator: length of the transition
    consonant_calls,                  \* Process calls since the last Start or Reset
    consonant_out                     \* what the last Process call returned: zero or a sample

\* SynthEngine's control state and the ghosts of its scenarios
engine_vars == <<adsr_state_, adsr_value_, is_note_on_, was_button_pressed_,
                 was_freq_select_button_pressed_, delay_audible,
                 previousTargetIndex_, pot_value, started, stopIdle, edges,
                 note_phase>>

\* the device around the engine (main.cpp)
device_vars == <<state_, sm_pc, synthReleaseCounter, analog_running,
                 play_button, quiet_run, held_ticks, standby>>

\* the output block of one Process call
block_vars == <<sample, aa_inputs, block_written>>

\* the oscillator and the signal path of RenderOneSample
render_vars == <<phase_, currentFrequency_, path_calls, renders>>

\* the pulse generator and its last call
pulse_vars == <<base_dutycycle, duty_cyclerandomization, current_dutycycle,
                randomizationcounter, set_d, gen_phase, gen_dt, gen_naive,
                gen_sample, gen_calls>>

\* the vibrato oscillator
vibrato_vars == <<vibrato_phase_, depth_, targetDepth_, currentDepth_,
                  buildingUp_, triggered, ramp_calls>>

\* the pitch state and the pot and hold inputs of the last tick
voice_vars == <<fundamentalFreq_, targetFrequencyOffset_, offsetCounter_,
                in_pot, in_vib, in_hold, last_call>>

\* the formant filter and the ghosts of its calls
formant_vars == <<filterMode_, currentVoice_, wahPosition_, formantRate_,
                  targetFormantFreqs_, targetFormantQs_, currentFormantFreqs_,
                  currentFormantQs_, in_wah, formant_call, formant_updates,
                  in_vowel>>

\* the consonant generator and the ghosts of its calls
consonant_vars == <<type_, consonant_state_, sampleCounter_, closureSamples_,
                    burstSamples_, transitionSamples_, consonant_calls,
                    consonant_out>>

\* everything but the engine's control state
outside_engine == <<device_vars, block_vars, render_vars, pulse_vars,
                    vibrato_vars, voice_vars, formant_vars, consonant_vars>>

\* everything but the engine's control state and the device
outside_device == <<block_vars, render_vars, pulse_vars, vibrato_vars,
                    voice_vars, formant_vars, consonant_vars>>

\* everything but the pulse generator
outside_pulse == <<engine_vars, device_vars, block_vars, render_vars,
                   vibrato_vars, voice_vars, formant_vars, consonant_vars>>

\* everything but the vibrato oscillator
outside_vibrato == <<engine_vars, device_vars, block_vars, render_vars,
                     pulse_vars, voice_vars, formant_vars, consonant_vars>>

\* everything but the formant filter
outside_formant == <<engine_vars, device_vars, block_vars, render_vars,
                     pulse_vars, vibrato_vars, voice_vars, consonant_vars>>

\* everything but the consonant generator
outside_consonant == <<engine_vars, device_vars, block_vars, render_vars,
                       pulse_vars, vibrato_vars, voice_vars, formant_vars>>

vars == <<engine_vars, device_vars, block_vars, render_vars, pulse_vars,
          vibrato_vars, voice_vars, formant_vars, consonant_vars>>

----------------------------------------------------------------------------
(* Parameters set by SynthEngine::Init *)

sample_rate_ == 16000

\* Frequencies are fixed point with FreqOne = 1 Hz.
FreqOne == 10000

kInitialFrequency == 1308100

\* Phases, phase increments and duty cycles are fractions of one period,
\* fixed point with PhaseOne = 1.0.
PhaseOne == 1000

kInitialDutyCycle == 10

\* Vibrato depths are fixed point with DepthOne = 1.0.
DepthOne == 1000000000

\* 0.02f, the depth the Vibrato constructor sets
kInitialDepth == DepthOne \div 50

\* 0.12f, the depth SynthEngine::Init passes to SetParameters
kParameterDepth == 12 * (DepthOne \div 100)

rate_ == 6

buildupTime_ == 1800

\* seconds in the source, milliseconds here
adsr_attack_time_ == 50

adsr_decay_time_ == 200

adsr_release_time_ == 100

\* 0.8f in the source, tenths here
adsr_sustain_tenths_ == 8

\* fixed-point 1.0
One == sample_rate_

adsr_sustain_level_ == (adsr_sustain_tenths_ * One) \div 10

\* 1.0f / (adsr_attack_time_ * sample_rate_)
AttackIncrement == (One * 1000) \div (adsr_attack_time_ * sample_rate_)

\* (1.0f - adsr_sustain_level_) / (adsr_decay_time_ * sample_rate_)
DecayDecrement ==
    ((One - adsr_sustain_level_) * 1000) \div (adsr_decay_time_ * sample_rate_)

\* adsr_sustain_level_ / (adsr_release_time_ * sample_rate_)
ReleaseDecrement ==
    (adsr_sustain_level_ * 1000) \div (adsr_release_time_ * sample_rate_)

ADSRState == {"Idle", "Attack", "Decay", "Sustain", "Release"}

----------------------------------------------------------------------------
(* The envelope as a value: the three fields the envelope methods write,   *)
(* and the record of the calls made during the current tick.               *)

Engine(st, val, note) ==
    [adsr_state_ |-> st, adsr_value_ |-> val, is_note_on_ |-> note,
     started |-> FALSE, stopIdle |-> FALSE]

\* the program fields of an engine value
Env(e) == <<e.adsr_state_, e.adsr_value_, e.is_note_on_>>

StartEnvelope_NoFlag(e) ==
    [e EXCEPT !.adsr_state_ = "Attack",
              !.adsr_value_ = 0,
              !.started = TRUE]

StartEnvelope(e) ==
    [e EXCEPT !.adsr_state_ = "Attack",
              !.adsr_value_ = 0,
              !.is_note_on_ = TRUE,
              !.started = TRUE]

StopEnvelope_Always(e) ==
    [e EXCEPT !.adsr_state_ = "Release",
              !.stopIdle = @ \/ (e.adsr_state_ = "Idle")]

StopEnvelope_HardStop(e) ==
    [e EXCEPT !.adsr_state_ = "Idle",
              !.adsr_value_ = 0,
              !.stopIdle = @ \/ (e.adsr_state_ = "Idle")]

StopEnvelope(e) ==
    [e EXCEPT !.adsr_state_ = IF @ # "Idle" THEN "Release" ELSE @,
              !.stopIdle = @ \/ (e.adsr_state_ = "Idle")]

AttackStep_ToSustain(e) ==
    IF e.adsr_value_ + AttackIncrement >= One
    THEN [e EXCEPT !.adsr_value_ = One, !.adsr_state_ = "Sustain"]
    ELSE [e EXCEPT !.adsr_value_ = @ + AttackIncrement]

\* case kAttack
AttackStep(e) ==
    IF e.adsr_value_ + AttackIncrement >= One
    THEN [e EXCEPT !.adsr_value_ = One, !.adsr_state_ = "Decay"]
    ELSE [e EXCEPT !.adsr_value_ = @ + AttackIncrement]

DecayStep_Upward(e) ==
    IF e.adsr_value_ + DecayDecrement <= adsr_sustain_level_
    THEN [e EXCEPT !.adsr_value_ = adsr_sustain_level_,
                   !.adsr_state_ = "Sustain"]
    ELSE [e EXCEPT !.adsr_value_ = @ + DecayDecrement]

\* case kDecay
DecayStep(e) ==
    IF e.adsr_value_ - DecayDecrement <= adsr_sustain_level_
    THEN [e EXCEPT !.adsr_value_ = adsr_sustain_level_,
                   !.adsr_state_ = "Sustain"]
    ELSE [e EXCEPT !.adsr_value_ = @ - DecayDecrement]

\* case kSustain
SustainStep(e) == [e EXCEPT !.adsr_value_ = adsr_sustain_level_]

ReleaseStep_NoFloor(e) ==
    IF e.adsr_value_ - ReleaseDecrement <= 0
    THEN [e EXCEPT !.adsr_value_ = @ - ReleaseDecrement,
                   !.adsr_state_ = "Idle",
                   !.is_note_on_ = FALSE]
    ELSE [e EXCEPT !.adsr_value_ = @ - ReleaseDecrement]

\* case kRelease
ReleaseStep(e) ==
    IF e.adsr_value_ - ReleaseDecrement <= 0
    THEN [e EXCEPT !.adsr_value_ = 0,
                   !.adsr_state_ = "Idle",
                   !.is_note_on_ = FALSE]
    ELSE [e EXCEPT !.adsr_value_ = @ - ReleaseDecrement]

\* case kIdle, default
IdleStep(e) == [e EXCEPT !.adsr_value_ = 0]

UpdateEnvelope(e) ==
    CASE e.adsr_state_ = "Attack"  -> AttackStep(e)
      [] e.adsr_state_ = "Decay"   -> DecayStep(e)
      [] e.adsr_state_ = "Sustain" -> SustainStep(e)
      [] e.adsr_state_ = "Release" -> ReleaseStep(e)
      [] OTHER                     -> IdleStep(e)

RenderSkipped_Never(e, audible) == FALSE

\* The early return of RenderOneSample: envelope idle and delay line silent.
RenderSkipped(e, audible) == e.adsr_state_ = "Idle" /\ ~audible

\* RenderOneSample, as far as it writes the envelope.
RenderOneSample(e, audible) ==
    IF RenderSkipped(e, audible) THEN e ELSE UpdateEnvelope(e)

getActive_EnvelopeOnly(st, audible) == st # "Idle"

getActive(st, audible) == ~(st = "Idle" /\ ~audible)

----------------------------------------------------------------------------
(* SynthEngine::Process, control part *)

FreqSelectEdges_NoStart(e, wasFreq, freq) ==
    IF ~freq /\ wasFreq THEN StopEnvelope(e) ELSE e

FreqSelectEdges_NoStop(e, wasFreq, freq) ==
    IF freq /\ ~wasFreq THEN StartEnvelope(e) ELSE e

\* lines 138-147: the edges of the freq-select button
FreqSelectEdges(e, wasFreq, freq) ==
    IF freq /\ ~wasFreq THEN StartEnvelope(e)
    ELSE IF ~freq /\ wasFreq THEN StopEnvelope(e)
    ELSE e

VoiceButtonLogic_NoEdge(e, wasButton, button, hold) ==
    IF button
    THEN IF hold
         THEN LET t == [e EXCEPT !.is_note_on_ = ~@]
              IN  IF t.is_note_on_ THEN StartEnvelope(t) ELSE StopEnvelope(t)
         ELSE StartEnvelope(e)
    ELSE IF ~hold /\ ~button /\ wasButton THEN StopEnvelope(e)
    ELSE e

VoiceButtonLogic_ReleaseInHold(e, wasButton, button, hold) ==
    IF button /\ ~wasButton
    THEN IF hold
         THEN LET t == [e EXCEPT !.is_note_on_ = ~@]
              IN  IF t.is_note_on_ THEN StartEnvelope(t) ELSE StopEnvelope(t)
         ELSE StartEnvelope(e)
    ELSE IF ~button /\ wasButton THEN StopEnvelope(e)
    ELSE e

\* lines 155-180: the voice button, freq-select not held
VoiceButtonLogic(e, wasButton, button, hold) ==
    IF button /\ ~wasButton
    THEN IF hold
         THEN LET t == [e EXCEPT !.is_note_on_ = ~@]
              IN  IF t.is_note_on_ THEN StartEnvelope(t) ELSE StopEnvelope(t)
         ELSE StartEnvelope(e)
    ELSE IF ~hold /\ ~button /\ wasButton THEN StopEnvelope(e)
    ELSE e

\* lines 196-200: freq-select held
FreqSelectHeld(e) == IF ~e.is_note_on_ THEN StartEnvelope(e) ELSE e

\* lines 138-208: the envelope after the button logic, before rendering
ControlLogic(e, wasButton, wasFreq, button, hold, freq) ==
    LET e1 == FreqSelectEdges(e, wasFreq, freq)
    IN  IF ~freq THEN VoiceButtonLogic(e1, wasButton, button, hold)
        ELSE FreqSelectHeld(e1)

PitchUpdated_NoteOn(e, button, hold, freq) ==
    ~freq /\ (e.is_note_on_ \/ button)

\* line 183: the diatonic pitch path runs
PitchUpdated(e, button, hold, freq) ==
    ~freq /\ ((hold /\ e.is_note_on_) \/ (~hold /\ button))

----------------------------------------------------------------------------
(* The delay line (app/engine/delay_engine.h) is used through its contract *)
(* only: Init leaves it silent, and after a Process call audible() may     *)
(* report either answer.                                                   *)

DelayInitAudible == FALSE

DelayAudibleAfterProcess == BOOLEAN

----------------------------------------------------------------------------
(* State after construction and SynthEngine::Init() *)

\* main(): analog_.StartPlayback(), synth_engine_.Init(), Transition(STATE_SYNTH)
\* (lines 357-368); the main loop has not started an iteration yet.
DeviceInit ==
    /\ state_ = "STATE_SYNTH"
    /\ sm_pc = "loop"
    /\ synthReleaseCounter = 0
    /\ analog_running = TRUE
    /\ play_button = FALSE
    /\ quiet_run = 0
    /\ held_ticks = 0
    /\ standby = FALSE

\* no block has been produced yet
BlockInit ==
    /\ sample = 0
    /\ aa_inputs = << >>
    /\ block_written = {}

\* SynthEngine::Init: phase_ = 0, currentFrequency_ = 130.81 Hz
RenderInit ==
    /\ phase_ = 0
    /\ currentFrequency_ = kInitialFrequency
    /\ path_calls = {}
    /\ renders = 0

\* PulseGenerator() and, in SynthEngine::Init, SetBaseDutyCycle(0.01f) and
\* SetDutyCycleRandomization(0.0f)
PulseInit ==
    /\ base_dutycycle = kInitialDutyCycle
    /\ duty_cyclerandomization = 0
    /\ current_dutycycle = kInitialDutyCycle
    /\ randomizationcounter = 0
    /\ set_d = kInitialDutyCycle
    /\ gen_phase = 0
    /\ gen_dt = 0
    /\ gen_naive = 0
    /\ gen_sample = 0
    /\ gen_calls = 0

\* Vibrato(), vibrato_.Init(sample_rate_) and
\* vibrato_.SetParameters(6.0f, 0.12f, 1.8f)
VibratoInit ==
    /\ vibrato_phase_ = 0
    /\ depth_ = kInitialDepth
    /\ targetDepth_ = kParameterDepth
    /\ currentDepth_ = 0
    /\ buildingUp_ = FALSE
    /\ triggered = FALSE
    /\ ramp_calls = 0

\* SynthEngine::Init: fundamentalFreq_ = 130.81 Hz, no wobble offset, counter
\* expired; no Process call has been made
VoiceInit ==
    /\ fundamentalFreq_ = kInitialFrequency
    /\ targetFrequencyOffset_ = 0
    /\ offsetCounter_ = 0
    /\ in_pot = 0
    /\ in_vib = 0
    /\ in_hold = FALSE
    /\ last_call = "Init"

\* the engine's control state after SynthEngine::Init
(* FormantFilter (formant_filter.h).  Formant frequencies and Qs are       *)
(* fixed point with FormantOne = 1 Hz (or Q of 1); the wah position is in  *)
(* thousandths and the morph rate has RateOne = 1.0.                       *)

FormantOne == 10000

WahOne == 1000

RateOne == 10000

FilterModes == {"FILTER_MODE_NORMAL", "FILTER_MODE_WAH"}

VOICE_NEUTRAL == 0

VOICE_COUNT == 1

\* enum Vowel
VOWEL_I == 0

VOWEL_A == 4

VOWEL_OU == 6

VOWEL_SCHWA == 9

numVowels == 10

\* vowelData[VOICE_NEUTRAL][vowel] = {F1, F2, F3, Q1, Q2, Q3}, at vowel + 1
vowelData ==
    << <<270, 2290, 3010, 10, 9, 9>>,
       <<390, 1990, 2550, 12, 11, 10>>,
       <<530, 1840, 2480, 11, 11, 10>>,
       <<660, 1720, 2410, 11, 11, 10>>,
       <<730, 1090, 2440, 10, 8, 9>>,
       <<570, 840, 2410, 11, 10, 10>>,
       <<500, 700, 2450, 11, 10, 10>>,
       <<440, 1020, 2240, 12, 10, 10>>,
       <<300, 870, 2240, 10, 9, 9>>,
       <<500, 1500, 2400, 12, 11, 10>> >>

\* F1..F3 and Q1..Q3 of a vowel, in fixed point
VowelFreqs(vowel) == [i \in 1 .. 3 |-> vowelData[vowel + 1][i] * FormantOne]

VowelQs(vowel) == [i \in 1 .. 3 |-> vowelData[vowel + 1][i + 3] * FormantOne]

\* formantRate_ = 0.002f of FormantFilter::Init
kInitFormantRate == 20

\* SetFormantRate(0.0001f) of SynthEngine::Init
kEngineFormantRate == 1

\* SetFormantRate(0.001f) of the Release case
kReleaseFormantRate == 10

\* the filter as a value
Formant(mode, voice, wah, rate, tf, tq, cf, cq) ==
    [filterMode_ |-> mode, currentVoice_ |-> voice, wahPosition_ |-> wah,
     formantRate_ |-> rate, targetFormantFreqs_ |-> tf,
     targetFormantQs_ |-> tq, currentFormantFreqs_ |-> cf,
     currentFormantQs_ |-> cq]

\* FormantFilter::Init
FormantFilterInit ==
    Formant("FILTER_MODE_NORMAL", VOICE_NEUTRAL, 0, kInitFormantRate,
            VowelFreqs(VOWEL_A), VowelQs(VOWEL_A),
            VowelFreqs(VOWEL_A), VowelQs(VOWEL_A))

\* the filter as SynthEngine::Init leaves it (lines 68-73 and 90)
FormantEngineInit ==
    [FormantFilterInit EXCEPT !.formantRate_ = kEngineFormantRate]

FormantInit ==
    /\ filterMode_ = FormantEngineInit.filterMode_
    /\ currentVoice_ = FormantEngineInit.currentVoice_
    /\ wahPosition_ = FormantEngineInit.wahPosition_
    /\ formantRate_ = FormantEngineInit.formantRate_
    /\ targetFormantFreqs_ = FormantEngineInit.targetFormantFreqs_
    /\ targetFormantQs_ = FormantEngineInit.targetFormantQs_
    /\ currentFormantFreqs_ = FormantEngineInit.currentFormantFreqs_
    /\ currentFormantQs_ = FormantEngineInit.currentFormantQs_
    /\ in_wah = 0
    /\ formant_call = "Init"
    /\ formant_updates = 0
    /\ in_vowel = VOWEL_A

EngineInit ==
    /\ adsr_state_ = "Idle"
    /\ adsr_value_ = 0
    /\ is_note_on_ = FALSE
    /\ was_button_pressed_ = FALSE
    /\ was_freq_select_button_pressed_ = FALSE
    /\ delay_audible = DelayInitAudible
    /\ previousTargetIndex_ = -1
    /\ pot_value = 0
    /\ started = FALSE
    /\ stopIdle = FALSE
    /\ edges = 0
    /\ note_phase = "fresh"

\* ConsonantGenerator as constructed (the member initialisers, lines 290-307)
ConsonantInit ==
    /\ type_ = "NONE"
    /\ consonant_state_ = "IDLE"
    /\ sampleCounter_ = 0
    /\ closureSamples_ = 0
    /\ burstSamples_ = 0
    /\ transitionSamples_ = 0
    /\ consonant_calls = 0
    /\ consonant_out = "none"

Init ==
    /\ EngineInit
    /\ DeviceInit
    /\ BlockInit
    /\ RenderInit
    /\ PulseInit
    /\ VibratoInit
    /\ VoiceInit
    /\ FormantInit
    /\ ConsonantInit

\* One call of SynthEngine::Process(block, button, pot, hold, ..., freq):
\* button logic, RenderOneSample, then the edge memory (lines 138-224).
ProcessTick(button, hold, freq) ==
    LET e0 == Engine(adsr_state_, adsr_value_, is_note_on_)
        e1 == ControlLogic(e0, was_button_pressed_,
                           was_freq_select_button_pressed_, button, hold, freq)
        e2 == RenderOneSample(e1, delay_audible)
    IN  /\ adsr_state_' = e2.adsr_state_
        /\ adsr_value_' = e2.adsr_value_
        /\ is_note_on_' = e2.is_note_on_
        /\ delay_audible' \in IF RenderSkipped(e1, delay_audible)
                               THEN {delay_audible}
                               ELSE DelayAudibleAfterProcess
        /\ was_button_pressed_' = button
        /\ was_freq_select_button_pressed_' = freq
        /\ started' = e2.started
        /\ stopIdle' = e2.stopIdle

\* The audio callback with arbitrary control inputs.
Process ==
    \E button, hold, freq \in BOOLEAN :
        /\ ProcessTick(button, hold, freq)
        /\ UNCHANGED <<previousTargetIndex_, pot_value, edges, note_phase>>
        /\ UNCHANGED outside_engine

Next == Process

Spec == Init /\ [][Next]_vars

----------------------------------------------------------------------------
(* Scale-degree selection of the diatonic pitch path.  The path shares no  *)
(* state with the envelope and the buttons; Process reaches it on the      *)
(* ticks where PitchUpdated holds.                                         *)

\* pot values are thousandths of the pot range
PotMax == 1000

PotValues == 0 .. PotMax

\* kThresholds, in thousandths
kThresholds == <<125, 250, 375, 500, 625, 750, 875>>

kNumThresholds == Len(kThresholds)

kNumNotes == 8

RECURSIVE ThresholdScan_Inclusive(_, _)
ThresholdScan_Inclusive(pot, i) ==
    IF i >= kNumThresholds THEN kNumNotes - 1
    ELSE IF pot <= kThresholds[i + 1] THEN i
    ELSE ThresholdScan_Inclusive(pot, i + 1)

\* the for loop of DetermineTargetIndex; i is the C++ (0-based) index
RECURSIVE ThresholdScan(_, _)
ThresholdScan(pot, i) ==
    IF i >= kNumThresholds THEN kNumNotes - 1
    ELSE IF pot < kThresholds[i + 1] THEN i
    ELSE ThresholdScan(pot, i + 1)

DetermineTargetIndex_Inclusive(pot) ==
    IF pot <= kThresholds[1] THEN 0
    ELSE IF pot > kThresholds[kNumThresholds] THEN kNumNotes - 1
    ELSE ThresholdScan_Inclusive(pot, 1)

DetermineTargetIndex(pot) ==
    IF pot < kThresholds[1] THEN 0
    ELSE IF pot >= kThresholds[kNumThresholds] THEN kNumNotes - 1
    ELSE ThresholdScan(pot, 1)

\* UpdatePitchWithScale(pot), as far as the scale degree goes:
\* PossiblyUpdateVowel stores the degree DetermineTargetIndex returns.
UpdatePitchWithScale ==
    \E pot \in PotValues :
        /\ pot_value' = pot
        /\ previousTargetIndex_' = DetermineTargetIndex(pot)
        /\ UNCHANGED <<adsr_state_, adsr_value_, is_note_on_,
                       was_button_pressed_, was_freq_select_button_pressed_,
                       delay_audible, started, stopIdle, edges, note_phase>>
        /\ UNCHANGED outside_engine

NextPitch == UpdatePitchWithScale

SpecPitch == Init /\ [][NextPitch]_vars

----------------------------------------------------------------------------
(* Hold mode: hold enabled on every tick, freq-select never held.          *)

HoldProcess ==
    \E button \in BOOLEAN :
        /\ ProcessTick(button, TRUE, FALSE)
        /\ edges' = IF button /\ ~was_button_pressed_ THEN 1 - edges ELSE edges
        /\ UNCHANGED <<previousTargetIndex_, pot_value, note_phase>>
        /\ UNCHANGED outside_engine

NextHold == HoldProcess

SpecHold == Init /\ [][NextHold]_vars

----------------------------------------------------------------------------
(* A single note: hold disabled, freq-select never held, the voice button  *)
(* pressed for some ticks and then released for good.  The audio callback  *)
(* is driven by the converter's interrupt and keeps being called, hence    *)
(* the weak fairness on the tick.                                          *)

PressTick ==
    /\ note_phase \in {"fresh", "held"}
    /\ ProcessTick(TRUE, FALSE, FALSE)
    /\ note_phase' = "held"
    /\ UNCHANGED <<previousTargetIndex_, pot_value, edges>>
    /\ UNCHANGED outside_engine

ReleaseTick ==
    /\ ProcessTick(FALSE, FALSE, FALSE)
    /\ note_phase' = IF note_phase = "held" THEN "released" ELSE note_phase
    /\ UNCHANGED <<previousTargetIndex_, pot_value, edges>>
    /\ UNCHANGED outside_engine

NextNote == PressTick \/ ReleaseTick

SpecNote == Init /\ [][NextNote]_vars /\ WF_vars(NextNote)

----------------------------------------------------------------------------
(* Vocabulary of the properties *)

Abs(x) == IF x < 0 THEN 0 - x ELSE x

Max2(x, y) == IF x >= y THEN x ELSE y

\* the largest per-sample step of the envelope
MaxStep == Max2(AttackIncrement, Max2(DecayDecrement, ReleaseDecrement))

Sounding == {"Attack", "Decay", "Sustain"}

Stopped == {"Release", "Idle"}

\* the envelope of the current state, no call made yet
Current == Engine(adsr_state_, adsr_value_, is_note_on_)

\* the envelope one tick later when no button logic touches it
Undisturbed == Env(RenderOneSample(Current, delay_audible))

RisingEdge == ~was_button_pressed_ /\ was_button_pressed_'

FallingEdge == was_button_pressed_ /\ ~was_button_pressed_'

FreqRisingEdge ==
    ~was_freq_select_button_pressed_ /\ was_freq_select_button_pressed_'

FreqFallingEdge ==
    was_freq_select_button_pressed_ /\ ~was_freq_select_button_pressed_'

----------------------------------------------------------------------------
(* Properties of the envelope and the button logic, specification Spec *)

\* C1 as stated: between the ends of two consecutive ticks the envelope
\* value moves by at most one per-sample step, whatever the inputs.
C1_ValueNeverJumps ==
    [][Abs(adsr_value_' - adsr_value_) <= MaxStep]_vars

\* C1 amended: on a tick on which StartEnvelope does not run the envelope
\* value moves by at most one per-sample step; a tick on which
\* StartEnvelope runs restarts the value from 0 and ends at exactly one
\* attack increment, whatever the value was before.
C1_ValueStepsUnlessStarted ==
    [][IF started'
       THEN adsr_state_' = "Attack" /\ adsr_value_' = AttackIncrement
       ELSE Abs(adsr_value_' - adsr_value_) <= MaxStep]_vars

\* a note restarted by the freq-select button while the voice button is held
C1_Witness ==
    /\ started
    /\ adsr_value_ = AttackIncrement
    /\ was_button_pressed_
    /\ was_freq_select_button_pressed_

\* C2 as stated: on every tick with hold disabled and freq-select not held
\* the envelope ends in Attack, Decay or Sustain when the voice button is
\* pressed and in Release or Idle when it is not, whatever happened before.
C2_LevelGating ==
    [][\A button \in BOOLEAN :
          ProcessTick(button, FALSE, FALSE) =>
              /\ button => adsr_state_' \in Sounding
              /\ ~button => adsr_state_' \in Stopped]_vars

\* C2 amended: on a tick with hold disabled and freq-select not held the
\* voice button gates the envelope by its edges: a rising edge leaves the
\* envelope in Attack (restarted from 0) and a falling edge leaves it in
\* Release or Idle; a tick without an edge of the voice button neither
\* starts the envelope nor stops it, unless freq-select was just released.
C2_EdgeGating ==
    [][\A button \in BOOLEAN :
          ProcessTick(button, FALSE, FALSE) =>
              /\ (button /\ ~was_button_pressed_) =>
                     (started' /\ adsr_state_' = "Attack")
              /\ (~button /\ was_button_pressed_) =>
                     (~started' /\ adsr_state_' \in Stopped)
              /\ (button = was_button_pressed_) =>
                     /\ ~started'
                     /\ ~was_freq_select_button_pressed_ =>
                            <<adsr_state_', adsr_value_', is_note_on_'>>
                                = Undisturbed]_vars

\* the voice button is released and the note is in its release
C2_Witness ==
    /\ adsr_state_ = "Release"
    /\ ~was_button_pressed_
    /\ ~was_freq_select_button_pressed_
    /\ ~stopIdle
    /\ adsr_value_ = adsr_sustain_level_ - ReleaseDecrement

\* C4: a rising edge of freq-select on a note that is already on (envelope
\* in Attack, Decay or Sustain, note-on flag set) does not restart the
\* envelope: its state and value go on as on a tick without the edge.
C4_FreqEdgeKeepsNote ==
    [][(FreqRisingEdge /\ adsr_state_ \in Sounding /\ is_note_on_) =>
          /\ ~started'
          /\ <<adsr_state_', adsr_value_', is_note_on_'>> = Undisturbed]_vars

\* C5 as stated: on every tick on which freq-select goes from held to not
\* held the envelope ends in Release or Idle, whatever the voice button and
\* hold are.
C5_FreqReleaseStops ==
    [][FreqFallingEdge => adsr_state_' \in Stopped]_vars

\* C5 amended: on every tick on which freq-select goes from held to not
\* held the envelope ends in Release or Idle, except when the voice button
\* has a rising edge on that same tick with hold disabled: the voice-button
\* logic then restarts the note and the envelope ends in Attack.
C5_FreqReleaseStopsUnlessPressed ==
    [][\A button, hold \in BOOLEAN :
          (was_freq_select_button_pressed_
              /\ ProcessTick(button, hold, FALSE)) =>
                 IF button /\ ~was_button_pressed_ /\ ~hold
                 THEN adsr_state_' = "Attack" /\ adsr_value_' = AttackIncrement
                 ELSE adsr_state_' \in Stopped /\ ~started']_vars

\* freq-select was released with the voice button held all along
C5_Witness ==
    /\ adsr_state_ = "Release"
    /\ ~was_freq_select_button_pressed_
    /\ was_button_pressed_
    /\ adsr_value_ = adsr_sustain_level_ - ReleaseDecrement

\* C7 as stated: in Attack at the end of two consecutive ticks the value
\* has not decreased; in Decay (in Release) at the end of two consecutive
\* ticks it has not increased.
C7_MonotoneInPhase ==
    [][/\ (adsr_state_ = "Attack" /\ adsr_state_' = "Attack") =>
              adsr_value_' >= adsr_value_
       /\ (adsr_state_ = "Decay" /\ adsr_state_' = "Decay") =>
              adsr_value_' <= adsr_value_
       /\ (adsr_state_ = "Release" /\ adsr_state_' = "Release") =>
              adsr_value_' <= adsr_value_]_vars

\* C7 amended: in Attack at the end of two consecutive ticks the value has
\* not decreased unless StartEnvelope ran on the second tick (a retrigger
\* restarts the attack from 0); in Decay (in Release) at the end of two
\* consecutive ticks the value has not increased.
C7_MonotoneUnlessRetriggered ==
    [][/\ (adsr_state_ = "Attack" /\ adsr_state_' = "Attack" /\ ~started') =>
              adsr_value_' >= adsr_value_
       /\ (adsr_state_ = "Decay" /\ adsr_state_' = "Decay") =>
              adsr_value_' <= adsr_value_
       /\ (adsr_state_ = "Release" /\ adsr_state_' = "Release") =>
              adsr_value_' <= adsr_value_]_vars

\* halfway down the decay, two decay ticks behind it
C7_Witness ==
    /\ adsr_state_ = "Decay"
    /\ adsr_value_ = One - 2 * DecayDecrement
    /\ ~started

\* the envelope value is in [0, 1] and fits the envelope state
EnvelopeConsistent ==
    /\ adsr_state_ \in ADSRState
    /\ adsr_value_ >= 0 /\ adsr_value_ <= One
    /\ adsr_state_ = "Sustain" => adsr_value_ = adsr_sustain_level_
    /\ adsr_state_ = "Decay" =>
           (adsr_value_ >= adsr_sustain_level_ /\ adsr_value_ <= One)
    /\ adsr_state_ = "Idle" => adsr_value_ = 0

\* C8: in every reachable state the envelope value is in [0, 1], equals
\* sustainLevel in Sustain, lies in [sustainLevel, 1] in Decay and is 0 in
\* Idle; at the end of the tick on which the state changes from Attack to
\* Decay it is exactly 1.
C8_ValueFitsState ==
    /\ []EnvelopeConsistent
    /\ [][(adsr_state_ = "Attack" /\ adsr_state_' = "Decay") =>
              adsr_value_' = One]_vars

\* the tick on which the attack reached the top and handed over to Decay
C8_Witness ==
    /\ adsr_state_ = "Decay"
    /\ adsr_value_ = One
    /\ is_note_on_

\* StopEnvelope applied to e a second time changes nothing, and applied to
\* an idle envelope changes nothing
StopIdempotentOn(e) ==
    /\ Env(StopEnvelope(StopEnvelope(e))) = Env(StopEnvelope(e))
    /\ e.adsr_state_ = "Idle" => Env(StopEnvelope(e)) = Env(e)

\* C9: StopEnvelope is idempotent.  In every reachable state, and in the
\* state a StartEnvelope leaves, a second StopEnvelope changes nothing the
\* first did not, and StopEnvelope on an idle envelope leaves state, value
\* and note-on flag as they are; a tick whose StopEnvelope calls found the
\* envelope idle, and which starts no note, leaves the envelope unchanged.
C9_StopIdempotent ==
    /\ [](StopIdempotentOn(Current) /\ StopIdempotentOn(StartEnvelope(Current)))
    /\ [][(stopIdle' /\ ~started') =>
              /\ adsr_state_ = "Idle"
              /\ <<adsr_state_', adsr_value_', is_note_on_'>> = Env(Current)]_vars

\* the voice button released on an envelope that was already idle
C9_Witness ==
    /\ stopIdle
    /\ ~started
    /\ adsr_state_ = "Idle"
    /\ adsr_value_ = 0
    /\ ~is_note_on_

----------------------------------------------------------------------------
(* Hold mode, specification SpecHold *)

\* C3: with hold enabled on every tick and freq-select never held, after k
\* rising edges of the voice button the note-on flag is on iff k is odd;
\* an odd rising edge starts the envelope (Attack), an even one stops it
\* (Release or Idle); a falling edge neither starts nor stops: flag and
\* envelope go on as on a tick without any edge.
C3_HoldToggles ==
    /\ [](is_note_on_ = (edges = 1))
    /\ [][RisingEdge =>
              IF edges' = 1
              THEN started' /\ adsr_state_' = "Attack"
              ELSE ~started' /\ adsr_state_' \in Stopped]_vars
    /\ [][FallingEdge =>
              /\ ~started'
              /\ <<adsr_state_', adsr_value_', is_note_on_'>> = Undisturbed]_vars

\* the second rising edge has put the held note into its release
C3_Witness ==
    /\ edges = 0
    /\ was_button_pressed_
    /\ adsr_state_ = "Release"
    /\ ~is_note_on_

----------------------------------------------------------------------------
(* Scale degrees, specification SpecPitch *)

\* the degree stored for pot value p, once the pitch path has run with it
DegreeOf(p, d) ==
    (previousTargetIndex_ # -1 /\ pot_value = p) => previousTargetIndex_ = d

\* C6 as stated: pot inputs 0.0, 0.2, 0.5 and 0.9 map to the scale degrees
\* 0, 1, 3 and 7.
C6_DegreesAsStated ==
    DegreeOf(0, 0) /\ DegreeOf(200, 1) /\ DegreeOf(500, 3) /\ DegreeOf(900, 7)

\* C6 amended: pot inputs 0.0, 0.2, 0.5 and 0.9 map to the scale degrees
\* 0, 1, 4 and 7: a pot value equal to a threshold belongs to the degree
\* above it.
C6_DegreesOfSamples ==
    DegreeOf(0, 0) /\ DegreeOf(200, 1) /\ DegreeOf(500, 4) /\ DegreeOf(900, 7)

\* the pitch path has run with the pot at 0.5
C6_Witness == pot_value = 500 /\ previousTargetIndex_ = 4

----------------------------------------------------------------------------
(* A single note, specification SpecNote *)

\* C10 as stated: getActive() is false right after the tick on which the
\* released note's envelope reaches Idle.
C10_InactiveWhenIdle ==
    (note_phase = "released" /\ adsr_state_ = "Idle") =>
        ~getActive(adsr_state_, delay_audible)

\* C10 amended: after the note is released, finitely many ticks bring the
\* envelope to Idle with value exactly 0, where it stays; from then on
\* getActive() returns what the delay line's audible() reports: false as
\* soon as the delay tail is silent, true while it is still audible.
C10_ReleaseEndsIdle ==
    /\ (note_phase = "released") ~> (adsr_state_ = "Idle" /\ adsr_value_ = 0)
    /\ [][(note_phase = "released" /\ adsr_state_ = "Idle") =>
              (adsr_state_' = "Idle" /\ adsr_value_' = 0)]_vars
    /\ []((note_phase = "released" /\ adsr_state_ = "Idle") =>
              (getActive(adsr_state_, delay_audible) = delay_audible))

\* the released note has faded out and the delay tail is silent
C10_Witness ==
    /\ note_phase = "released"
    /\ adsr_state_ = "Idle"
    /\ adsr_value_ = 0
    /\ ~delay_audible
    /\ ~getActive(adsr_state_, delay_audible)

----------------------------------------------------------------------------
(* The device around the engine (src/app/main.cpp).  The main loop calls   *)
(* StateMachine once per iteration; the converter's interrupt calls the    *)
(* audio callback, which runs to completion and can come between any two   *)
(* steps of the main loop.  sm_pc is the main loop's position: "loop"      *)
(* between two iterations, "synth" inside the STATE_SYNTH branch before    *)
(* getActive(), "stop" before analog_.Stop(), "transition" before          *)
(* Transition(STATE_IDLE), "idle_standby" inside the STATE_IDLE branch     *)
(* between Transition(STATE_SYNTH) and the test of standby, "standby" once *)
(* system::Standby() was called.                                           *)
(* Scenario: loop switch off, tune button released, and a press of the     *)
(* play button is seen by at most MaxHeldTicks callbacks in a row.         *)

kSynthReleaseLimit == 50

MaxHeldTicks == 3

DeviceStates == {"STATE_IDLE", "STATE_SYNTH", "STATE_STANDBY"}

\* StateMachine in STATE_IDLE: the switches are sampled; a pressed play
\* button restarts the converter and stores STATE_SYNTH, otherwise the idle
\* timeout may raise standby (its counter and limit are inputs here); with
\* standby raised STATE_STANDBY is stored, after STATE_SYNTH if both apply.
\* message: the monitor delivered TYPE_STANDBY in this iteration.
SMIdle ==
    \E sw, message, timeout \in BOOLEAN :
        LET request == message \/ (~sw /\ timeout)
        IN  /\ sm_pc = "loop"
            /\ state_ = "STATE_IDLE"
            /\ play_button' = sw
            /\ analog_running' = (sw \/ analog_running)
            /\ standby' = request
            /\ state_' = IF sw THEN "STATE_SYNTH"
                         ELSE IF request THEN "STATE_STANDBY"
                         ELSE "STATE_IDLE"
            /\ sm_pc' = IF sw /\ request THEN "idle_standby" ELSE "loop"
            /\ UNCHANGED <<synthReleaseCounter, quiet_run, held_ticks>>
            /\ UNCHANGED <<engine_vars, outside_device>>

\* if (standby) Transition(STATE_STANDBY), after Transition(STATE_SYNTH)
SMIdleStandby ==
    /\ sm_pc = "idle_standby"
    /\ state_' = "STATE_STANDBY"
    /\ sm_pc' = "loop"
    /\ UNCHANGED <<synthReleaseCounter, analog_running, play_button,
                   quiet_run, held_ticks, standby>>
    /\ UNCHANGED <<engine_vars, outside_device>>

SMSynthEnter_Standby ==
    \E sw, message \in BOOLEAN :
        /\ sm_pc = "loop"
        /\ state_ = "STATE_SYNTH"
        /\ play_button' = sw
        /\ standby' = message
        /\ sm_pc' = IF message THEN "loop" ELSE "synth"
        /\ state_' = IF message THEN "STATE_STANDBY" ELSE state_
        /\ UNCHANGED <<synthReleaseCounter, analog_running, quiet_run,
                       held_ticks>>
        /\ UNCHANGED <<engine_vars, outside_device>>

\* StateMachine in STATE_SYNTH, up to the call of getActive(); the branch
\* does not read standby.
SMSynthEnter ==
    \E sw, message \in BOOLEAN :
        /\ sm_pc = "loop"
        /\ state_ = "STATE_SYNTH"
        /\ play_button' = sw
        /\ standby' = message
        /\ sm_pc' = "synth"
        /\ UNCHANGED <<state_, synthReleaseCounter, analog_running, quiet_run,
                       held_ticks>>
        /\ UNCHANGED <<engine_vars, outside_device>>

\* getActive() and the release counter: a silent engine counts up and at
\* the limit goes on to stop the converter, an active one resets the count.
SMSynthCheck ==
    /\ sm_pc = "synth"
    /\ IF ~getActive(adsr_state_, delay_audible)
       THEN /\ synthReleaseCounter' = synthReleaseCounter + 1
            /\ quiet_run' = quiet_run + 1
            /\ sm_pc' = IF synthReleaseCounter + 1 >= kSynthReleaseLimit
                        THEN "stop" ELSE "loop"
       ELSE /\ synthReleaseCounter' = 0
            /\ quiet_run' = 0
            /\ sm_pc' = "loop"
    /\ UNCHANGED <<state_, analog_running, play_button, held_ticks, standby>>
    /\ UNCHANGED <<engine_vars, outside_device>>

\* analog_.Stop()
SMStop ==
    /\ sm_pc = "stop"
    /\ analog_running' = FALSE
    /\ sm_pc' = "transition"
    /\ UNCHANGED <<state_, synthReleaseCounter, play_button, quiet_run,
                   held_ticks, standby>>
    /\ UNCHANGED <<engine_vars, outside_device>>

\* Transition(STATE_IDLE); synthReleaseCounter = 0
SMTransition ==
    /\ sm_pc = "transition"
    /\ state_' = "STATE_IDLE"
    /\ synthReleaseCounter' = 0
    /\ quiet_run' = 0
    /\ sm_pc' = "loop"
    /\ UNCHANGED <<analog_running, play_button, held_ticks, standby>>
    /\ UNCHANGED <<engine_vars, outside_device>>

\* StateMachine in STATE_STANDBY: analog_.Stop(), system::Standby().
SMStandby ==
    /\ sm_pc = "loop"
    /\ state_ = "STATE_STANDBY"
    /\ analog_running' = FALSE
    /\ sm_pc' = "standby"
    /\ UNCHANGED <<state_, synthReleaseCounter, play_button, quiet_run,
                   held_ticks, standby>>
    /\ UNCHANGED <<engine_vars, outside_device>>

\* The audio callback: in STATE_SYNTH it runs SynthEngine::Process with the
\* play button as last sampled by the main loop.
AudioCallback ==
    /\ analog_running
    /\ state_ = "STATE_SYNTH"
    /\ play_button => held_ticks < MaxHeldTicks
    /\ ProcessTick(play_button, FALSE, FALSE)
    /\ held_ticks' = IF play_button THEN held_ticks + 1 ELSE 0
    /\ UNCHANGED <<state_, sm_pc, synthReleaseCounter, analog_running,
                   play_button, quiet_run, standby>>
    /\ UNCHANGED <<previousTargetIndex_, pot_value, edges, note_phase>>
    /\ UNCHANGED outside_device

NextDevice ==
    \/ SMIdle
    \/ SMIdleStandby
    \/ SMSynthEnter
    \/ SMSynthCheck
    \/ SMStop
    \/ SMTransition
    \/ SMStandby
    \/ AudioCallback

SpecDevice == Init /\ [][NextDevice]_vars

(* The device, specification SpecDevice *)

\* the converter has just been stopped by the STATE_SYNTH branch
AudioPathJustStopped == sm_pc = "transition"

\* First half of C11: the converter is stopped only after getActive()
\* returned false on kSynthReleaseLimit iterations in a row.
C11_StopAfterQuietRun ==
    AudioPathJustStopped => quiet_run >= kSynthReleaseLimit

\* Second half of C11: the envelope is Idle when the converter is stopped.
C11_IdleWhenStopped ==
    AudioPathJustStopped => adsr_state_ = "Idle"

\* C11 as stated: the audio path is stopped and STATE_SYNTH left only after
\* 50 consecutive StateMachine iterations on which getActive() returned
\* false, and at the moment the audio path is stopped the envelope is Idle.
C11_SafeStop ==
    C11_StopAfterQuietRun /\ C11_IdleWhenStopped

----------------------------------------------------------------------------
(* The output block of SynthEngine::Process (lines 213-220).  The sample   *)
(* RenderOneSample returns is an input here: any value of Samples.         *)
(* kAudioOSFactor and kAudioOutputLevel are set in common/config.h, which  *)
(* is not among the sources at hand; the block generation is the same for  *)
(* every value of them, and the values below stand for any.                *)

kAudioOSFactor == 4

kAudioOutputLevel == 2

SampleMax == 50

Samples == (0 - SampleMax) .. SampleMax

ScaleSample_LevelOnly(s) == s * kAudioOutputLevel

\* sample *= (kAudioOSFactor * kAudioOutputLevel)
ScaleSample(s) == s * (kAudioOSFactor * kAudioOutputLevel)

\* The loop for (i = 0; i < kAudioOSFactor; i++): what it has passed to
\* aa_filter_.Process after the iterations i, i+1, ...
RECURSIVE BlockLoop(_, _, _)
BlockLoop(i, scaled, fed) ==
    IF i < kAudioOSFactor
    THEN BlockLoop(i + 1, scaled, Append(fed, IF i = 0 THEN scaled ELSE 0))
    ELSE fed

\* The indices i with block[i] = filtered executed.
RECURSIVE BlockIndices(_, _)
BlockIndices(i, written) ==
    IF i < kAudioOSFactor
    THEN BlockIndices(i + 1, written \cup {i})
    ELSE written

\* Block generation after RenderOneSample returned s.
GenerateBlock(s) ==
    /\ sample' = s
    /\ aa_inputs' = BlockLoop(0, ScaleSample(s), << >>)
    /\ block_written' = BlockIndices(0, {})

----------------------------------------------------------------------------
(* The pulse generator (src/app/engine/pulse_generator.h).  std::rand()    *)
(* is an input: random_offset, the value UpdateDutyCycle derives from it,  *)
(* is any element of RandomOffsets (fixed point, PhaseOne = 1.0).          *)

randomizationperiod == 5

kDutyMin == 100

kDutyMax == 900

kMaxOffsetTenths == 3

GenCallsCap == 7

Min2(x, y) == IF x <= y THEN x ELSE y

\* std::max(lo, std::min(hi, x))
Clamp(x, lo, hi) == Max2(lo, Min2(hi, x))

RandomOffsets == {0 - PhaseOne, 0 - (PhaseOne \div 2), 0, PhaseOne \div 2, PhaseOne}

Pulse(base, randomization, current, counter) ==
    [base_dutycycle |-> base, duty_cyclerandomization |-> randomization,
     current_dutycycle |-> current, randomizationcounter |-> counter]

PulseNow ==
    Pulse(base_dutycycle, duty_cyclerandomization, current_dutycycle,
          randomizationcounter)

UpdateDutyCycle_ClampAlways(pg, random_offset) ==
    [pg EXCEPT !.current_dutycycle = Clamp(pg.base_dutycycle, kDutyMin, kDutyMax)]

UpdateDutyCycle_NoClamp(pg, random_offset) ==
    LET max_offset == (kMaxOffsetTenths * pg.duty_cyclerandomization) \div 10
        offset == (random_offset * max_offset) \div PhaseOne
    IN  [pg EXCEPT !.current_dutycycle = pg.base_dutycycle + offset]

\* UpdateDutyCycle: a random duty cycle around the base, kept in
\* [0.1, 0.9], when randomization is on; the base itself when it is off.
UpdateDutyCycle(pg, random_offset) ==
    IF pg.duty_cyclerandomization > 0
    THEN LET max_offset == (kMaxOffsetTenths * pg.duty_cyclerandomization) \div 10
             offset == (random_offset * max_offset) \div PhaseOne
         IN  [pg EXCEPT !.current_dutycycle =
                  Clamp(pg.base_dutycycle + offset, kDutyMin, kDutyMax)]
    ELSE [pg EXCEPT !.current_dutycycle = pg.base_dutycycle]

SetBaseDutyCycle(pg, duty_cycle, random_offset) ==
    UpdateDutyCycle([pg EXCEPT !.base_dutycycle = Clamp(duty_cycle, 0, PhaseOne)],
                    random_offset)

SetDutyCycleRandomization(pg, randomization, random_offset) ==
    UpdateDutyCycle([pg EXCEPT !.duty_cyclerandomization =
                                    Clamp(randomization, 0, PhaseOne)],
                    random_offset)

\* The first statement of GenerateSample: the refresh every
\* randomizationperiod calls.
RefreshDutyCycle(pg, random_offset) ==
    IF pg.randomizationcounter - 1 <= 0
    THEN [UpdateDutyCycle(pg, random_offset)
              EXCEPT !.randomizationcounter = randomizationperiod]
    ELSE [pg EXCEPT !.randomizationcounter = pg.randomizationcounter - 1]

\* fmodf(t, 1.0f): the remainder has the sign of t
Fmod1(t) == IF t >= 0 THEN t % PhaseOne ELSE 0 - ((0 - t) % PhaseOne)

PolyBlep_WideWindow(t, dt) ==
    IF dt = 0 THEN 0
    ELSE LET tm == Fmod1(t)
         IN  IF tm < 2 * dt
             THEN LET x == (tm * PhaseOne) \div (2 * dt)
                  IN  x + x - (x * x) \div PhaseOne - PhaseOne
             ELSE 0

\* PolyBlep(t, dt): the polynomial correction within dt after and before
\* the discontinuity, 0 elsewhere and for dt = 0.
PolyBlep(t, dt) ==
    IF dt = 0 THEN 0
    ELSE LET tm == Fmod1(t)
         IN  IF tm < dt
             THEN LET x == (tm * PhaseOne) \div dt
                  IN  x + x - (x * x) \div PhaseOne - PhaseOne
             ELSE IF tm > PhaseOne - dt
             THEN LET x == ((tm - PhaseOne) * PhaseOne) \div dt
                  IN  (x * x) \div PhaseOne + x + x + PhaseOne
             ELSE 0

\* the uncorrected pulse of GenerateSample
NaivePulse(phase, duty) == IF phase < duty THEN PhaseOne ELSE 0 - PhaseOne

\* the value GenerateSample returns for a given effective duty cycle
PulseSample(phase, phase_increment, duty) ==
    LET t0 == phase - duty
        t  == IF t0 < 0 THEN t0 + PhaseOne ELSE t0
    IN  NaivePulse(phase, duty) + PolyBlep(phase, phase_increment)
            - PolyBlep(t, phase_increment)

SetPulse(pg) ==
    /\ base_dutycycle' = pg.base_dutycycle
    /\ duty_cyclerandomization' = pg.duty_cyclerandomization
    /\ current_dutycycle' = pg.current_dutycycle
    /\ randomizationcounter' = pg.randomizationcounter

\* One call of GenerateSample(phase, phase_increment).
GenerateSample(phase, phase_increment, random_offset) ==
    LET pg == RefreshDutyCycle(PulseNow, random_offset)
    IN  /\ SetPulse(pg)
        /\ gen_phase' = phase
        /\ gen_dt' = phase_increment
        /\ gen_naive' = NaivePulse(phase, pg.current_dutycycle)
        /\ gen_sample' = PulseSample(phase, phase_increment, pg.current_dutycycle)
        /\ gen_calls' = Min2(gen_calls + 1, GenCallsCap)
        /\ UNCHANGED set_d

----------------------------------------------------------------------------
(* The whole of SynthEngine::Process with its signal path: control logic,  *)
(* RenderOneSample, block generation.  The low-pass, the formant filter    *)
(* and the delay compute on floats outside this model; path_calls records  *)
(* which of them processed a sample in the tick, and the sample that       *)
(* leaves the chain is any element of RenderedSamples.                     *)
(* Scenario: hold off, freq-select released, a press of the voice button   *)
(* lasts at most MaxHeldTicks ticks, at most MaxRenders samples are        *)
(* rendered in full; no pitch update moves currentFrequency_.              *)

MaxRenders == 16

SignalPath == {"lowpass_filter_", "formant_filter_", "delay_"}

RenderedSamples == {0 - SampleMax, 0 - 1, 0, 1, SampleMax}

\* float phaseIncrement = currentFrequency_ / sample_rate_
PhaseIncrement(frequency) == frequency \div ((FreqOne * sample_rate_) \div PhaseOne)

AdvancePhase_NoWrap(phase, increment) == phase + increment

\* phase_ += phaseIncrement; if (phase_ >= 1.0f) phase_ -= 1.0f;
AdvancePhase(phase, increment) ==
    IF phase + increment >= PhaseOne
    THEN phase + increment - PhaseOne
    ELSE phase + increment

\* the engine as the control logic of this tick leaves it
AfterControl(button, hold, freq) ==
    ControlLogic(Engine(adsr_state_, adsr_value_, is_note_on_),
                 was_button_pressed_, was_freq_select_button_pressed_,
                 button, hold, freq)

\* RenderOneSample beyond the envelope, and the block made of its result.
SignalPathTick(skipped) ==
    IF skipped
    THEN /\ GenerateBlock(0)
         /\ path_calls' = {}
         /\ UNCHANGED <<phase_, currentFrequency_, renders, pulse_vars>>
    ELSE /\ phase_' = AdvancePhase(phase_, PhaseIncrement(currentFrequency_))
         /\ GenerateSample(phase_', PhaseIncrement(currentFrequency_), 0)
         /\ path_calls' = SignalPath
         /\ \E s \in RenderedSamples : GenerateBlock(s)
         /\ renders' = renders + 1
         /\ UNCHANGED currentFrequency_

RenderTick(button) ==
    LET skipped == RenderSkipped(AfterControl(button, FALSE, FALSE), delay_audible)
    IN  /\ button => held_ticks < MaxHeldTicks
        /\ ~skipped => renders < MaxRenders
        /\ ProcessTick(button, FALSE, FALSE)
        /\ SignalPathTick(skipped)
        /\ held_ticks' = IF button THEN held_ticks + 1 ELSE 0
        /\ UNCHANGED <<previousTargetIndex_, pot_value, edges, note_phase>>
        /\ UNCHANGED <<state_, sm_pc, synthReleaseCounter, analog_running,
                       play_button, quiet_run, standby>>
        /\ UNCHANGED <<vibrato_vars, voice_vars, formant_vars, consonant_vars>>

ProcessRender == \E button \in BOOLEAN : RenderTick(button)

NextRender == ProcessRender

SpecRender == Init /\ [][NextRender]_vars

(* The whole tick, specification SpecRender *)

\* a Process call has produced a block
BlockProduced == aa_inputs # << >>

\* C12: a Process call passes exactly kAudioOSFactor values to the
\* anti-alias filter and writes every block element; the first value is
\* the rendered sample times kAudioOSFactor * kAudioOutputLevel, every
\* other value is exactly 0.
C12_BlockShape ==
    BlockProduced =>
        /\ Len(aa_inputs) = kAudioOSFactor
        /\ block_written = 0 .. (kAudioOSFactor - 1)
        /\ aa_inputs[1] = sample * kAudioOSFactor * kAudioOutputLevel
        /\ \A i \in 2 .. Len(aa_inputs) : aa_inputs[i] = 0

\* a block made from a non-zero sample
C12_Witness ==
    /\ BlockProduced
    /\ sample = SampleMax
    /\ aa_inputs[1] = SampleMax * kAudioOSFactor * kAudioOutputLevel
    /\ aa_inputs[kAudioOSFactor] = 0

\* C13: on a tick whose control logic leaves the envelope Idle while the
\* delay is not audible, RenderOneSample returns 0 and the tick leaves the
\* oscillator phase, the envelope state and value, the pulse generator's
\* counter and duty cycle and the delay unchanged, and neither filter nor
\* the delay processes a sample.
C13_SkipLeavesStateAlone ==
    [][\A button \in BOOLEAN :
          (/\ RenderTick(button)
           /\ AfterControl(button, FALSE, FALSE).adsr_state_ = "Idle"
           /\ ~delay_audible)
          => (/\ sample' = 0
              /\ phase_' = phase_
              /\ adsr_state_' = adsr_state_
              /\ adsr_value_' = adsr_value_
              /\ randomizationcounter' = randomizationcounter
              /\ current_dutycycle' = current_dutycycle
              /\ path_calls' = {}
              /\ delay_audible' = delay_audible)]_vars

\* a skipped tick after samples were rendered: the phase and the pulse
\* counter keep what the last rendered sample left
C13_Witness ==
    /\ adsr_state_ = "Idle"
    /\ ~delay_audible
    /\ block_written # {}
    /\ path_calls = {}
    /\ sample = 0
    /\ phase_ > 0
    /\ randomizationcounter > 0

----------------------------------------------------------------------------
(* The pulse generator on its own: any sequence of SetBaseDutyCycle,       *)
(* SetDutyCycleRandomization and GenerateSample calls after                *)
(* SynthEngine::Init, with arguments inside and outside [0, 1].            *)

DutyInputs == {0 - 500, 0, 10, 50, 100, 500, 900, 950, 1000, 1500}

RandomizationInputs == {0 - 100, 0, 80, 1000, 1500}

PulsePhases == {0, 500}

PulseIncrements == {0, 8}

SetBaseDutyCycleCall ==
    \E d \in DutyInputs, random_offset \in RandomOffsets :
        /\ SetPulse(SetBaseDutyCycle(PulseNow, d, random_offset))
        /\ set_d' = d
        /\ gen_calls' = 0
        /\ UNCHANGED <<gen_phase, gen_dt, gen_naive, gen_sample>>
        /\ UNCHANGED outside_pulse

SetDutyCycleRandomizationCall ==
    \E r \in RandomizationInputs, random_offset \in RandomOffsets :
        /\ SetPulse(SetDutyCycleRandomization(PulseNow, r, random_offset))
        /\ gen_calls' = 0
        /\ UNCHANGED <<set_d, gen_phase, gen_dt, gen_naive, gen_sample>>
        /\ UNCHANGED outside_pulse

GenerateSampleCall ==
    \E phase \in PulsePhases, dt \in PulseIncrements,
       random_offset \in RandomOffsets :
        /\ GenerateSample(phase, dt, random_offset)
        /\ UNCHANGED outside_pulse

NextPulse ==
    \/ SetBaseDutyCycleCall
    \/ SetDutyCycleRandomizationCall
    \/ GenerateSampleCall

SpecPulse == Init /\ [][NextPulse]_vars

(* The pulse generator, specification SpecPulse *)

\* GenerateSample has been called since the last setter call
SampleGenerated == gen_calls > 0

\* C14 as stated: whatever SetBaseDutyCycle and SetDutyCycleRandomization
\* were given, every GenerateSample call uses an effective duty cycle in
\* [0.1, 0.9].
C14_DutyInRange ==
    SampleGenerated =>
        (kDutyMin <= current_dutycycle /\ current_dutycycle <= kDutyMax)

\* C14 amended: while randomization is above 0, every GenerateSample call
\* uses an effective duty cycle in [0.1, 0.9]; with randomization 0 the
\* effective duty cycle is the base duty cycle, which lies in [0, 1] and
\* can be outside [0.1, 0.9].
C14_DutyInRangeWhenRandomized ==
    SampleGenerated =>
        IF duty_cyclerandomization > 0
        THEN kDutyMin <= current_dutycycle /\ current_dutycycle <= kDutyMax
        ELSE /\ current_dutycycle = base_dutycycle
             /\ 0 <= current_dutycycle /\ current_dutycycle <= PhaseOne

\* randomization on, base below 0.1: the clamp has acted
C14_Witness ==
    /\ SampleGenerated
    /\ duty_cyclerandomization > 0
    /\ base_dutycycle < kDutyMin
    /\ current_dutycycle = kDutyMin

\* C15: with randomization 0, every GenerateSample call after
\* SetBaseDutyCycle(d) uses the duty cycle clamp(d, 0, 1), however many
\* samples are generated.
C15_DutyIsClampedInput ==
    (SampleGenerated /\ duty_cyclerandomization = 0) =>
        current_dutycycle = Clamp(set_d, 0, PhaseOne)

\* d above 1, more samples generated than one randomization period
C15_Witness ==
    /\ duty_cyclerandomization = 0
    /\ set_d > PhaseOne
    /\ gen_calls > randomizationperiod
    /\ current_dutycycle = PhaseOne

----------------------------------------------------------------------------
(* GenerateSample as a function of phase, phase increment and duty cycle:  *)
(* randomization off, the duty cycle any of BlepDuties, one call with any  *)
(* phase of [0, 1) and any increment of BlepIncrements.                    *)

BlepDuties == {0, 10, 100, 250, 500, 900, 1000}

BlepPhases == 0 .. (PhaseOne - 1)

BlepIncrements == {0, 1, 8, 65, 170, 400, 600}

BlepInit ==
    /\ base_dutycycle \in BlepDuties
    /\ duty_cyclerandomization = 0
    /\ current_dutycycle = base_dutycycle
    /\ randomizationcounter = 0
    /\ set_d = base_dutycycle
    /\ gen_phase \in BlepPhases
    /\ gen_dt \in BlepIncrements
    /\ gen_naive = 0
    /\ gen_sample = 0
    /\ gen_calls = 0

InitBlep ==
    /\ EngineInit
    /\ DeviceInit
    /\ BlockInit
    /\ RenderInit
    /\ BlepInit
    /\ VibratoInit
    /\ VoiceInit
    /\ FormantInit
    /\ ConsonantInit

ApplyGenerateSample ==
    /\ gen_calls = 0
    /\ GenerateSample(gen_phase, gen_dt, 0)
    /\ UNCHANGED outside_pulse

NextBlep == ApplyGenerateSample

SpecBlep == InitBlep /\ [][NextBlep]_vars

(* The band-limiting correction, specification SpecBlep *)

\* distance between two phases on the circle [0, 1)
CircularDistance(a, b) == Min2((a - b) % PhaseOne, (b - a) % PhaseOne)

\* the phase of the last call is further than dt from both edges
AwayFromEdges ==
    /\ CircularDistance(gen_phase, 0) > gen_dt
    /\ CircularDistance(gen_phase, current_dutycycle) > gen_dt

\* C16: the correction GenerateSample adds to the +1/-1 pulse is exactly 0
\* when the phase is further than dt from the rising edge at 0 and from the
\* falling edge at the duty cycle, and for every phase when dt is 0.
C16_NoCorrectionAwayFromEdges ==
    (SampleGenerated /\ (gen_dt = 0 \/ AwayFromEdges)) => gen_sample = gen_naive

\* a phase between the two correction windows
C16_Witness ==
    /\ SampleGenerated
    /\ gen_dt = 65
    /\ gen_phase = 300
    /\ current_dutycycle = 500
    /\ AwayFromEdges
    /\ gen_sample = gen_naive

----------------------------------------------------------------------------
(* The vibrato oscillator (src/app/engine/vibrato.h).  The LFO phase is    *)
(* fixed point with TwoPi = 2*pi; the unit 2*pi/sampleRate_ makes the      *)
(* per-sample increment the integer rate_.  Times are in milliseconds.     *)

TwoPi == sample_rate_

kDepthSmoothingInv == 50

kDepthScaleInv == 4

kDepthEpsilonInv == 10000

\* 0.25f, the largest live depth
kMaxDepth == DepthOne \div 4

\* 0.0001f
kDepthEpsilon == DepthOne \div kDepthEpsilonInv

\* buildupTime_ * sampleRate_
BuildupSamples == (buildupTime_ * sample_rate_) \div 1000

Vibrato(phase, depth, target, current, building) ==
    [phase_ |-> phase, depth_ |-> depth, targetDepth_ |-> target,
     currentDepth_ |-> current, buildingUp_ |-> building]

VibratoNow ==
    Vibrato(vibrato_phase_, depth_, targetDepth_, currentDepth_, buildingUp_)

\* SetDepth: targetDepth_ = newDepth * 0.25f
SetDepth(v, newDepth) ==
    [v EXCEPT !.targetDepth_ = newDepth \div kDepthScaleInv]

\* Trigger: buildingUp_ = true, currentDepth_ = 0
Trigger(v) == [v EXCEPT !.buildingUp_ = TRUE, !.currentDepth_ = 0]

SmoothDepth_NoClamp(v) ==
    v.depth_ + (v.targetDepth_ - v.depth_) \div kDepthSmoothingInv

\* Process, step 1: the live depth moves 2% of the way to the target and
\* is kept in [0, 0.25].
SmoothDepth(v) ==
    Clamp(v.depth_ + (v.targetDepth_ - v.depth_) \div kDepthSmoothingInv,
          0, kMaxDepth)

\* Process, step 2: the ramp depth moves the fraction
\* 1 / (buildupTime_ * sampleRate_) of the way to the live depth, jumps onto
\* it when the gap was below epsilon, and is kept in [0, live depth].
RampDepth(current, depth) ==
    LET cdDiff == depth - current
        moved == current + cdDiff \div BuildupSamples
        caught == IF Abs(cdDiff) < kDepthEpsilon THEN depth ELSE moved
    IN  IF caught < 0 THEN 0 ELSE IF caught > depth THEN depth ELSE caught

AdvanceLfo_NoWrap(phase) == phase + (TwoPi * rate_) \div sample_rate_

\* Process, step 3: the LFO phase advances by 2*pi*rate_/sampleRate_ and
\* wraps at 2*pi.
AdvanceLfo(phase) ==
    LET phaseIncrement == (TwoPi * rate_) \div sample_rate_
    IN  IF phase + phaseIncrement >= TwoPi
        THEN phase + phaseIncrement - TwoPi
        ELSE phase + phaseIncrement

\* The state Process leaves.
VibratoProcess(v) ==
    LET depth == SmoothDepth(v)
        cdDiff == depth - v.currentDepth_
    IN  [v EXCEPT !.depth_ = depth,
                  !.currentDepth_ = RampDepth(v.currentDepth_, depth),
                  !.buildingUp_ = IF Abs(cdDiff) < kDepthEpsilon
                                  THEN FALSE ELSE v.buildingUp_,
                  !.phase_ = AdvanceLfo(v.phase_)]

SetVibrato(v) ==
    /\ vibrato_phase_' = v.phase_
    /\ depth_' = v.depth_
    /\ targetDepth_' = v.targetDepth_
    /\ currentDepth_' = v.currentDepth_
    /\ buildingUp_' = v.buildingUp_

(* One note: SetDepth with any value, inside or outside [0, 1], then       *)
(* Trigger(), then Process calls with the target depth left alone.         *)

MaxRampCalls == 28900

DepthInputs ==
    {0 - (DepthOne \div 2), 0, DepthOne \div 20, DepthOne \div 2, DepthOne,
     DepthOne + DepthOne \div 2}

SetDepthCall ==
    \E newDepth \in DepthInputs :
        /\ ~triggered
        /\ SetVibrato(SetDepth(VibratoNow, newDepth))
        /\ UNCHANGED <<triggered, ramp_calls>>
        /\ UNCHANGED outside_vibrato

TriggerCall ==
    /\ ~triggered
    /\ SetVibrato(Trigger(VibratoNow))
    /\ triggered' = TRUE
    /\ ramp_calls' = 0
    /\ UNCHANGED outside_vibrato

VibratoProcessCall ==
    /\ triggered
    /\ ramp_calls < MaxRampCalls
    /\ SetVibrato(VibratoProcess(VibratoNow))
    /\ ramp_calls' = ramp_calls + 1
    /\ UNCHANGED triggered
    /\ UNCHANGED outside_vibrato

NextVibrato ==
    \/ SetDepthCall
    \/ TriggerCall
    \/ VibratoProcessCall

SpecVibrato == Init /\ [][NextVibrato]_vars

(* The vibrato oscillator, specification SpecVibrato *)

\* First half of C17: the ramp depth never decreases from one Process call
\* to the next.
C17_RampMonotone ==
    [][(triggered /\ ramp_calls' = ramp_calls + 1)
           => currentDepth_' >= currentDepth_]_vars

\* Second half of C17: after buildupTime_ * sampleRate_ Process calls the
\* ramp depth is within epsilon of the live depth.
C17_RampCompleteInTime ==
    (triggered /\ ramp_calls >= BuildupSamples)
        => Abs(depth_ - currentDepth_) <= kDepthEpsilon

\* C17 as stated: after Trigger() with a constant target depth the ramp
\* depth is non-decreasing over successive Process calls and is within
\* epsilon of the live depth once buildupSeconds * sampleRate Process calls
\* have been made.
C17_RampAsStated ==
    C17_RampMonotone /\ []C17_RampCompleteInTime

\* a depth lies in [0, 0.25]
DepthInRange(d) == 0 <= d /\ d <= kMaxDepth

\* C18 as stated: target depth, live depth and ramp depth are in [0, 0.25]
\* after every SetDepth and Process call, whatever SetDepth was given.
C18_AllDepthsInRange ==
    /\ DepthInRange(targetDepth_)
    /\ DepthInRange(depth_)
    /\ DepthInRange(currentDepth_)

\* C18 amended: whatever SetDepth was given, the live depth is in
\* [0, 0.25] and the ramp depth in [0, live depth] after every SetDepth and
\* Process call; the target depth is the unclamped newDepth * 0.25.
C18_LiveAndRampInRange ==
    /\ DepthInRange(depth_)
    /\ 0 <= currentDepth_ /\ currentDepth_ <= depth_

\* a target above 0.25 has pushed the live depth onto the upper clamp
C18_Witness ==
    /\ targetDepth_ > kMaxDepth
    /\ depth_ = kMaxDepth
    /\ currentDepth_ > 0
    /\ ramp_calls > 0

----------------------------------------------------------------------------
(* The pitch path of SynthEngine::Process: the direct fundamental of the   *)
(* freq-select branch (lines 196-207) and UpdatePitchWithScale (lines      *)
(* 477-493), both through the vibrato and SmoothFrequencyToward.           *)
(* Frequencies are fixed point with FreqOne = 1 Hz, the sine has           *)
(* SinOne = 1.0 and scale ratios are ten-thousandths.  std::rand() is an   *)
(* input: the wobble draw is a number in [-1, 1], in thousandths.          *)

kMinFundamental == 327000

kMaxFundamental == 10465000

freq_mult_ == 1

freq_wobbliness_ == 3

frequencyMargin_ == 500

kOffsetPeriod == 1000

kFreqRateInv == 1000

SinOne == 1000

RatioOne == 10000

kDiatonicRatios == <<10000, 11225, 12599, 13348, 14983, 16818, 18878, 20000>>

\* mapFloat with in_max - in_min dividing out_max - out_min
mapFloat(x, in_min, in_max, out_min, out_max) ==
    (x - in_min) * ((out_max - out_min) \div (in_max - in_min)) + out_min

\* line 203: fundamentalFreq_ = mapFloat(pot_value, 0, 1, kMinFundamental,
\* kMaxFundamental)
MapFundamental(pot) ==
    mapFloat(pot, 0, PotMax, kMinFundamental, kMaxFundamental)

\* std::sin of an LFO phase in [0, 2*pi), by Bhaskara's rational
\* approximation 16 x (pi - x) / (5 pi^2 - 4 x (pi - x)) on each half period
Sin(phase) ==
    LET half == TwoPi \div 2
        x == IF phase < half THEN phase ELSE phase - half
        q == x * (half - x)
        s == (16 * q) \div ((5 * half * half - 4 * q) \div SinOne)
    IN  IF phase < half THEN s ELSE 0 - s

\* Process, step 4: inputFreq * (1 + sin(phase_) * currentDepth_)
VibratoOutput(v, inputFreq) ==
    LET vib == (v.currentDepth_ \div SinOne) * Sin(v.phase_)
    IN  inputFreq + ((inputFreq \div 1000) * (vib \div (DepthOne \div RatioOne))) \div 10

\* SmoothFrequencyToward: currentFrequency_ += diff * freq_rate_
SmoothFrequencyToward(current, targetFrequency) ==
    current + (targetFrequency - current) \div kFreqRateInv

\* line 482: fundamentalFreq_ * kDiatonicRatios[targetIndex] * freq_mult_
BaseTargetFrequency(fundamental, targetIndex) ==
    (((fundamental \div 1000) * kDiatonicRatios[targetIndex + 1])
        \div (RatioOne \div 1000)) * freq_mult_

\* the pitch state as a value
Pitch(fundamental, offset, counter, current, index) ==
    [fundamentalFreq_ |-> fundamental, targetFrequencyOffset_ |-> offset,
     offsetCounter_ |-> counter, currentFrequency_ |-> current,
     previousTargetIndex_ |-> index]

PitchNow ==
    Pitch(fundamentalFreq_, targetFrequencyOffset_, offsetCounter_,
          currentFrequency_, previousTargetIndex_)

OffsetExpired_CounterOnly(p, base) == p.offsetCounter_ <= 0

\* line 538: the counter has expired or the frequency is near the old target
OffsetExpired(p, base) ==
    \/ p.offsetCounter_ <= 0
    \/ Abs(p.currentFrequency_ - (base + p.targetFrequencyOffset_))
           < frequencyMargin_

PossiblyUpdateFrequencyOffset_FullRange(p, base, draw) ==
    IF OffsetExpired(p, base)
    THEN [p EXCEPT !.targetFrequencyOffset_ = ((base \div 100) * draw) \div 10,
                   !.offsetCounter_ = kOffsetPeriod - 1]
    ELSE [p EXCEPT !.offsetCounter_ = @ - 1]

\* PossiblyUpdateFrequencyOffset with the draw std::rand() delivered
PossiblyUpdateFrequencyOffset(p, base, draw) ==
    IF OffsetExpired(p, base)
    THEN [p EXCEPT !.targetFrequencyOffset_ =
                       (((base \div 100) * freq_wobbliness_) * draw) \div 1000,
                   !.offsetCounter_ = kOffsetPeriod - 1]
    ELSE [p EXCEPT !.offsetCounter_ = @ - 1]

\* the freq-select branch, lines 203-207, with the vibrato as Process left it
DirectPitch(p, v, pot) ==
    LET fundamental == MapFundamental(pot)
    IN  [p EXCEPT !.fundamentalFreq_ = fundamental,
                  !.currentFrequency_ =
                      SmoothFrequencyToward(@, VibratoOutput(v, fundamental))]

ScalePitch_Rebase(p, v, pot, draw) ==
    LET targetIndex == DetermineTargetIndex(pot)
        base == BaseTargetFrequency(p.fundamentalFreq_, targetIndex)
        p1 == PossiblyUpdateFrequencyOffset(p, base, draw)
        targetFrequency == base + p1.targetFrequencyOffset_
    IN  [p1 EXCEPT !.previousTargetIndex_ = targetIndex,
                   !.fundamentalFreq_ = base,
                   !.currentFrequency_ =
                       SmoothFrequencyToward(@, VibratoOutput(v, targetFrequency))]

\* UpdatePitchWithScale, lines 479-492, with the vibrato as Process left it
ScalePitch(p, v, pot, draw) ==
    LET targetIndex == DetermineTargetIndex(pot)
        base == BaseTargetFrequency(p.fundamentalFreq_, targetIndex)
        p1 == PossiblyUpdateFrequencyOffset(p, base, draw)
        targetFrequency == base + p1.targetFrequencyOffset_
    IN  [p1 EXCEPT !.previousTargetIndex_ = targetIndex,
                   !.currentFrequency_ =
                       SmoothFrequencyToward(@, VibratoOutput(v, targetFrequency))]

(* One call of SynthEngine::Process with every input: SetDepth, the button *)
(* logic with the Trigger() of StartEnvelope, the pitch path, and          *)
(* RenderOneSample with the oscillator, the pulse generator and the block. *)
(* The filters pass the sample VoiceSample on.                             *)

VoiceSample == 1

WobbleDraws == {0 - 1000, 1000}

Tick(button, hold, freq, pot, vib, draw) ==
    LET e1 == AfterControl(button, hold, freq)
        skipped == RenderSkipped(e1, delay_audible)
        v1 == SetDepth(VibratoNow, vib)
        v2 == IF e1.started THEN Trigger(v1) ELSE v1
        scale == PitchUpdated(e1, button, hold, freq)
        v3 == IF freq \/ scale THEN VibratoProcess(v2) ELSE v2
        p == IF freq THEN DirectPitch(PitchNow, v3, pot)
             ELSE IF scale THEN ScalePitch(PitchNow, v3, pot, draw)
             ELSE PitchNow
        increment == PhaseIncrement(p.currentFrequency_)
    IN  /\ ProcessTick(button, hold, freq)
        /\ SetVibrato(v3)
        /\ triggered' = (triggered \/ e1.started)
        /\ ramp_calls' = (IF e1.started THEN 0 ELSE ramp_calls)
                             + (IF freq \/ scale THEN 1 ELSE 0)
        /\ fundamentalFreq_' = p.fundamentalFreq_
        /\ targetFrequencyOffset_' = p.targetFrequencyOffset_
        /\ offsetCounter_' = p.offsetCounter_
        /\ currentFrequency_' = p.currentFrequency_
        /\ previousTargetIndex_' = p.previousTargetIndex_
        /\ pot_value' = IF scale THEN pot ELSE pot_value
        /\ IF skipped
           THEN /\ GenerateBlock(0)
                /\ path_calls' = {}
                /\ UNCHANGED <<phase_, renders, pulse_vars>>
           ELSE /\ phase_' = AdvancePhase(phase_, increment)
                /\ GenerateSample(phase_', increment, 0)
                /\ path_calls' = SignalPath
                /\ GenerateBlock(VoiceSample)
                /\ renders' = renders + 1
        /\ in_pot' = pot
        /\ in_vib' = vib
        /\ in_hold' = hold
        /\ last_call' = "Process"
        /\ UNCHANGED <<edges, note_phase, device_vars, consonant_vars>>

\* this tick calls std::rand() for a wobble offset
WobbleDrawn(button, hold, freq, pot) ==
    /\ PitchUpdated(AfterControl(button, hold, freq), button, hold, freq)
    /\ OffsetExpired(PitchNow,
                     BaseTargetFrequency(fundamentalFreq_,
                                         DetermineTargetIndex(pot)))

\* the draws a tick can see: 0 stands for no draw
DrawsOf(button, hold, freq, pot) ==
    IF WobbleDrawn(button, hold, freq, pot) THEN WobbleDraws ELSE {0}

\* this tick returns early from RenderOneSample
TickSkipped(button, hold, freq) ==
    RenderSkipped(AfterControl(button, hold, freq), delay_audible)

(* Long runs.  The pots are at a corner of their ranges and keep their     *)
(* values once a sample has been rendered; the buttons and hold change     *)
(* only every InputPeriod rendered samples; at most MaxVoiceRenders        *)
(* samples are rendered; the wobble draw is one of the two extremes.       *)

InputPeriod == 2700

MaxVoiceRenders == 2800

\* <<pot_value, vibrato_pot_val>>
VoicePots == {<<0, 0>>, <<PotMax, DepthOne>>}

ProcessVoice ==
    \E button, hold, freq \in BOOLEAN, pots \in VoicePots :
      \E draw \in DrawsOf(button, hold, freq, pots[1]) :
        /\ (renders % InputPeriod # 0)
               => /\ button = was_button_pressed_
                  /\ freq = was_freq_select_button_pressed_
                  /\ hold = in_hold
        /\ renders > 0 => pots[1] = in_pot /\ pots[2] = in_vib
        /\ ~TickSkipped(button, hold, freq) => renders < MaxVoiceRenders
        /\ Tick(button, hold, freq, pots[1], pots[2], draw)
        /\ UNCHANGED formant_vars

NextVoice == ProcessVoice

SpecVoice == Init /\ [][NextVoice]_vars

(* Short runs with every input free at every tick, the pitch pot inside    *)
(* and outside [0, 1]; at most MaxFundamentalRenders samples are rendered. *)

MaxFundamentalRenders == 2

FundamentalPots ==
    {0 - (PotMax \div 2), 0, PotMax \div 2, PotMax, PotMax + PotMax \div 2}

ProcessFundamental ==
    \E button, hold, freq \in BOOLEAN, pot \in FundamentalPots,
       vib \in {0, DepthOne} :
      \E draw \in DrawsOf(button, hold, freq, pot) :
        /\ ~TickSkipped(button, hold, freq) => renders < MaxFundamentalRenders
        /\ Tick(button, hold, freq, pot, vib, draw)
        /\ UNCHANGED formant_vars

NextFundamental == ProcessFundamental

SpecFundamental == Init /\ [][NextFundamental]_vars

(* The pitch path and the oscillators, specifications SpecFundamental and  *)
(* SpecVoice                                                               *)

\* C19 as stated: after a tick with freq_select_button held, whatever the
\* pot value, inside or outside [0, 1], fundamentalFreq_ is in
\* [32.70, 1046.50] Hz.
C19_FundamentalInRange ==
    was_freq_select_button_pressed_
        => /\ kMinFundamental <= fundamentalFreq_
           /\ fundamentalFreq_ <= kMaxFundamental

\* every pot of the last Process call is in [0, 1]
PotsInRange ==
    /\ 0 <= in_pot /\ in_pot <= PotMax
    /\ 0 <= in_vib /\ in_vib <= DepthOne

\* C20: with all pots in [0, 1], after every Process call the oscillator
\* phase is in [0, 1) and the vibrato LFO phase in [0, 2*pi), whatever the
\* button, hold and freq-select inputs were.
C20_PhasesInRange ==
    PotsInRange
        => /\ 0 <= phase_ /\ phase_ < PhaseOne
           /\ 0 <= vibrato_phase_ /\ vibrato_phase_ < TwoPi

\* the oscillator has just wrapped and the LFO has been round at least once
C20_Witness ==
    /\ PotsInRange
    /\ renders > 0
    /\ phase_ < PhaseIncrement(currentFrequency_)
    /\ ramp_calls * ((TwoPi * rate_) \div sample_rate_) >= TwoPi

\* The step is a tick on which freq-select is not held and the note is not
\* on under the gating mode: neither (hold and note-on flag) nor (hold
\* disabled and button pressed).  The inputs of a tick are what it leaves in
\* was_button_pressed_, was_freq_select_button_pressed_ and in_hold.
UngatedTick ==
    LET button == was_button_pressed_'
        hold == in_hold'
        freq == was_freq_select_button_pressed_'
        e1 == AfterControl(button, hold, freq)
    IN  /\ ~freq
        /\ ~(hold /\ e1.is_note_on_)
        /\ ~(~hold /\ button)

\* C21 as stated: an ungated tick leaves currentFrequency_, the wobble
\* offset and its counter, the stored scale degree, the vibrato LFO phase
\* and all vibrato depths as they were.
C21_PitchStateKept ==
    [][UngatedTick
           => UNCHANGED <<currentFrequency_, targetFrequencyOffset_,
                          offsetCounter_, previousTargetIndex_,
                          vibrato_phase_, depth_, currentDepth_,
                          targetDepth_>>]_vars

\* C21 amended: an ungated tick leaves currentFrequency_, the wobble offset
\* and its counter, the stored scale degree, the vibrato LFO phase, the live
\* depth and the ramp depth as they were; the target depth becomes
\* vibrato_pot_val * 0.25, as on every tick.
C21_PitchStateKeptButTarget ==
    [][UngatedTick
           => /\ UNCHANGED <<currentFrequency_, targetFrequencyOffset_,
                             offsetCounter_, previousTargetIndex_,
                             vibrato_phase_, depth_, currentDepth_>>
              /\ targetDepth_' = in_vib' \div kDepthScaleInv]_vars

\* an ungated tick (no button, no hold, no freq-select) has just run with
\* the pitch state moved by an earlier tick, and SetDepth has changed the
\* target depth
C21_Witness ==
    /\ renders > 0
    /\ ~was_button_pressed_ /\ ~in_hold /\ ~was_freq_select_button_pressed_
    /\ currentFrequency_ # kInitialFrequency
    /\ offsetCounter_ > 0
    /\ targetDepth_ = 0
    /\ depth_ # targetDepth_

----------------------------------------------------------------------------
(* SynthEngine::Init() called again on an engine that has been running.    *)
(* Init assigns the members its body names (lines 44-95); the envelope and *)
(* the remembered buttons are written by the constructor only.             *)

\* the filter's fields take the values of f
SetFormant(f) ==
    /\ filterMode_' = f.filterMode_
    /\ currentVoice_' = f.currentVoice_
    /\ wahPosition_' = f.wahPosition_
    /\ formantRate_' = f.formantRate_
    /\ targetFormantFreqs_' = f.targetFormantFreqs_
    /\ targetFormantQs_' = f.targetFormantQs_
    /\ currentFormantFreqs_' = f.currentFormantFreqs_
    /\ currentFormantQs_' = f.currentFormantQs_

\* vibrato_.Init(sample_rate_) and vibrato_.SetParameters(6.0f, 0.12f, 1.8f)
VibratoReinit(v) ==
    [v EXCEPT !.phase_ = 0,
              !.currentDepth_ = 0,
              !.buildingUp_ = FALSE,
              !.depth_ = v.targetDepth_,
              !.targetDepth_ = kParameterDepth]

\* pulse_generator_.SetBaseDutyCycle(0.01f) and
\* pulse_generator_.SetDutyCycleRandomization(0.0f)
PulseReinit(pg, random_offset) ==
    SetDutyCycleRandomization(
        SetBaseDutyCycle(pg, kInitialDutyCycle, random_offset), 0, random_offset)

InitCall ==
    \E random_offset \in RandomOffsets :
        /\ is_note_on_' = FALSE
        /\ phase_' = 0
        /\ currentFrequency_' = kInitialFrequency
        /\ fundamentalFreq_' = kInitialFrequency
        /\ targetFrequencyOffset_' = 0
        /\ offsetCounter_' = 0
        /\ previousTargetIndex_' = 0 - 1
        /\ delay_audible' = DelayInitAudible
        /\ SetPulse(PulseReinit(PulseNow, random_offset))
        /\ set_d' = kInitialDutyCycle
        /\ gen_calls' = 0
        /\ SetVibrato(VibratoReinit(VibratoNow))
        /\ started' = FALSE
        /\ stopIdle' = FALSE
        /\ last_call' = "Init"
        /\ SetFormant(FormantEngineInit)
        /\ formant_call' = "Init"
        /\ UNCHANGED <<in_wah, formant_updates, in_vowel>>
        /\ UNCHANGED <<adsr_state_, adsr_value_, was_button_pressed_,
                       was_freq_select_button_pressed_>>
        /\ UNCHANGED <<pot_value, edges, note_phase, device_vars, block_vars,
                       path_calls, renders, gen_phase, gen_dt, gen_naive,
                       gen_sample, triggered, ramp_calls, in_pot, in_vib,
                       in_hold, consonant_vars>>

(* Init() between Process calls: the short runs of SpecFundamental with    *)
(* Init() callable after any of them.                                      *)

NextInit ==
    \/ ProcessFundamental
    \/ InitCall

SpecInit == Init /\ [][NextInit]_vars

\* C22 as stated: after Init(), in whatever state it was called, the
\* envelope is Idle with value 0, the note-on flag is false, the remembered
\* button states are false, the oscillator phase is 0 and the current and
\* the fundamental frequency are 130.81 Hz.
C22_InitRestoresDefaults ==
    last_call = "Init"
        => /\ adsr_state_ = "Idle"
           /\ adsr_value_ = 0
           /\ ~is_note_on_
           /\ ~was_button_pressed_
           /\ ~was_freq_select_button_pressed_
           /\ phase_ = 0
           /\ currentFrequency_ = kInitialFrequency
           /\ fundamentalFreq_ = kInitialFrequency

----------------------------------------------------------------------------
(* The way into Idle, under arbitrary button inputs (Spec).                *)

\* C23: the envelope enters Idle only from Release, only on a tick where
\* the release step took the last of the value away (the value before was
\* positive and at most one release decrement, the value after is 0), and
\* the tick that enters Idle leaves the note-on flag false; Attack, Decay
\* and Sustain are never followed by Idle.
C23_IdleOnlyFromRelease ==
    [][/\ (adsr_state_ # "Idle" /\ adsr_state_' = "Idle")
            => /\ adsr_state_ = "Release"
               /\ adsr_value_ > 0
               /\ adsr_value_ <= ReleaseDecrement
               /\ adsr_value_' = 0
               /\ ~is_note_on_'
       /\ adsr_state_ \in Sounding => adsr_state_' # "Idle"]_vars

\* a note has sounded and its release has run down to Idle, with
\* the button still remembered as released
C23_Witness ==
    /\ adsr_state_ = "Idle"
    /\ adsr_value_ = 0
    /\ ~is_note_on_
    /\ ~was_button_pressed_
    /\ ~was_freq_select_button_pressed_
    /\ delay_audible

----------------------------------------------------------------------------
(* The scale degree as a count of thresholds, specification SpecPitch *)

\* the number of thresholds that are less than or equal to the pot value
ThresholdsUpTo(pot) ==
    Cardinality({i \in 1 .. kNumThresholds : kThresholds[i] <= pot})

\* C24: the degree DetermineTargetIndex returns is the number of thresholds
\* less than or equal to the pot value; it is in 0..7 and so a valid
\* (0-based) index into the scale-ratio table, and it does not decrease
\* when the pot value does not decrease.
C24_DegreeCountsThresholds ==
    /\ [](previousTargetIndex_ # 0 - 1
            => /\ previousTargetIndex_ = ThresholdsUpTo(pot_value)
               /\ previousTargetIndex_ \in 0 .. 7
               /\ previousTargetIndex_ + 1 \in DOMAIN kDiatonicRatios)
    /\ [][(previousTargetIndex_ # 0 - 1 /\ pot_value' >= pot_value)
            => previousTargetIndex_' >= previousTargetIndex_]_vars

\* the pitch path has run with the pot exactly on an interior threshold
C24_Witness == pot_value = kThresholds[3] /\ previousTargetIndex_ = 3

----------------------------------------------------------------------------
(* The moves of the envelope state from tick to tick (Spec).               *)

\* the moves UpdateEnvelope makes on its own
EnvelopeMoves ==
    {<<"Attack", "Decay">>, <<"Decay", "Sustain">>, <<"Release", "Idle">>}

\* the button logic of the tick ends in Release for some hold input
StoppedInTick ==
    \E hold \in BOOLEAN :
        ControlLogic(Current, was_button_pressed_,
                     was_freq_select_button_pressed_, was_button_pressed_',
                     hold, was_freq_select_button_pressed_').adsr_state_
            = "Release"

\* C25: from the end of one tick to the end of the next the envelope state
\* stays, or moves Idle to Attack or anything to Attack on a tick with a
\* start, or Attack, Decay or Sustain to Release on a tick with a stop, or
\* Attack to Decay with the value at 1, or Decay to Sustain with the value
\* at the sustain level, or Release to Idle; no other move happens.
C25_OneMovePerTick ==
    [][\/ adsr_state_' = adsr_state_
       \/ adsr_state_' = "Attack" /\ started'
       \/ adsr_state_ \in Sounding /\ adsr_state_' = "Release"
            /\ StoppedInTick
       \/ /\ <<adsr_state_, adsr_state_'>> \in EnvelopeMoves
          /\ ~started'
          /\ (adsr_state_' = "Decay" => adsr_value_' = One)
          /\ (adsr_state_' = "Sustain"
                => adsr_value_' = adsr_sustain_level_)]_vars

\* the attack has just run to the top: Decay with the value still 1
C25_Witness ==
    adsr_state_ = "Decay" /\ adsr_value_ = One /\ is_note_on_

----------------------------------------------------------------------------
(* The wobble offset of the diatonic path, specifications SpecFundamental  *)
(* and SpecVoice                                                           *)

\* this step is a Process call that runs UpdatePitchWithScale
ScaleTick ==
    LET button == was_button_pressed_'
        hold == in_hold'
        freq == was_freq_select_button_pressed_'
    IN  /\ last_call' = "Process"
        /\ PitchUpdated(AfterControl(button, hold, freq), button, hold, freq)

\* baseTarget * wobbliness for a fundamental and a scale degree
MaxOffset(fundamental, targetIndex) ==
    Abs(BaseTargetFrequency(fundamental, targetIndex) \div 100)
        * freq_wobbliness_

\* C26 as stated: at the end of every tick on the diatonic path,
\* |targetFrequencyOffset_| <= baseTarget * wobbliness for the base target
\* of that tick, also when the degree or the fundamental has just changed.
C26_OffsetBoundedByNote ==
    [][ScaleTick
         => Abs(targetFrequencyOffset_')
                <= MaxOffset(fundamentalFreq_', previousTargetIndex_')]_vars

\* C26 amended: a tick on the diatonic path either keeps the offset as it
\* was, or re-draws it within baseTarget * wobbliness of that tick's base
\* target.
C26_OffsetBoundedWhenDrawn ==
    [][ScaleTick
         => \/ /\ targetFrequencyOffset_' = targetFrequencyOffset_
               /\ offsetCounter_' = offsetCounter_ - 1
            \/ /\ offsetCounter_' = kOffsetPeriod - 1
               /\ Abs(targetFrequencyOffset_')
                      <= MaxOffset(fundamentalFreq_', previousTargetIndex_')]_vars

\* an offset drawn for the top degree is still there one tick later, with
\* the pot at the bottom degree
C26_Witness ==
    /\ offsetCounter_ = kOffsetPeriod - 2
    /\ previousTargetIndex_ = 0
    /\ in_pot = 0
    /\ fundamentalFreq_ = kInitialFrequency
    /\ Abs(targetFrequencyOffset_) = MaxOffset(kInitialFrequency, 7)

(* A held note on the bottom degree: the voice button is down on every     *)
(* tick, hold and freq-select are off and the pots are at 0, so every tick *)
(* calls UpdatePitchWithScale.  std::rand() delivers an extreme, or, on    *)
(* the first SmallDrawCalls calls, a value close to the middle of its      *)
(* range, which puts the target within frequencyMargin_ of the frequency.  *)

MaxWobbleRenders == 1100

SmallDrawCalls == 2

SmallDraw == 10

ProcessWobble ==
    \E draw \in DrawsOf(TRUE, FALSE, FALSE, 0) \cup {SmallDraw} :
        /\ renders < MaxWobbleRenders
        /\ draw = SmallDraw
               => WobbleDrawn(TRUE, FALSE, FALSE, 0) /\ renders < SmallDrawCalls
        /\ Tick(TRUE, FALSE, FALSE, 0, 0, draw)
        /\ UNCHANGED formant_vars

NextWobble == ProcessWobble

SpecWobble == Init /\ [][NextWobble]_vars

\* C27: a call of UpdatePitchWithScale re-draws the offset (and restarts
\* the counter at 999) exactly when the counter has expired or the current
\* frequency is within 0.05 Hz of base target plus offset; every other
\* call keeps the offset and counts down by one; the counter is in
\* [0, 999] after every call, so at most 999 calls in a row pass without a
\* refresh.
C27_RefreshWhenExpiredOrNear ==
    /\ [](offsetCounter_ \in 0 .. kOffsetPeriod - 1)
    /\ [][ScaleTick
            => LET base == BaseTargetFrequency(
                               fundamentalFreq_, DetermineTargetIndex(in_pot'))
                   due == \/ offsetCounter_ <= 0
                          \/ Abs(currentFrequency_
                                   - (base + targetFrequencyOffset_))
                                 < frequencyMargin_
               IN  IF due
                   THEN offsetCounter_' = kOffsetPeriod - 1
                   ELSE /\ offsetCounter_' = offsetCounter_ - 1
                        /\ offsetCounter_' < kOffsetPeriod - 1
                        /\ targetFrequencyOffset_' = targetFrequencyOffset_]_vars

\* the second call re-drew a small first offset early, and 999 calls later
\* the counter ran out and the offset was drawn again
C27_Witness ==
    /\ renders = kOffsetPeriod + 2
    /\ offsetCounter_ = kOffsetPeriod - 1
    /\ Abs(targetFrequencyOffset_) = MaxOffset(kInitialFrequency, 0)

----------------------------------------------------------------------------
(* FormantFilter's methods (formant_filter.h) *)

FormantNow ==
    Formant(filterMode_, currentVoice_, wahPosition_, formantRate_,
            targetFormantFreqs_, targetFormantQs_, currentFormantFreqs_,
            currentFormantQs_)

\* d * rate in fixed point, truncated toward 0, without overflow
ScaleBy(d, rate) ==
    LET a == Abs(d)
        m == (a \div RateOne) * rate + ((a % RateOne) * rate) \div RateOne
    IN  IF d < 0 THEN 0 - m ELSE m

SetMode(f, mode) == [f EXCEPT !.filterMode_ = mode]

SetVoice_NoGuard(f, voice) == [f EXCEPT !.currentVoice_ = voice]

SetVoice(f, voice) ==
    IF voice < 0 \/ voice >= VOICE_COUNT THEN f
    ELSE [f EXCEPT !.currentVoice_ = voice]

SetWahPosition(f, pos) ==
    [f EXCEPT !.wahPosition_ =
                  IF pos < 0 THEN 0 ELSE IF pos > WahOne THEN WahOne ELSE pos]

SetVowel_AnyMode(f, vowel) ==
    [f EXCEPT !.targetFormantFreqs_ = VowelFreqs(vowel),
              !.targetFormantQs_ = VowelQs(vowel)]

SetVowel(f, vowel) ==
    IF f.filterMode_ = "FILTER_MODE_NORMAL"
    THEN [f EXCEPT !.targetFormantFreqs_ = VowelFreqs(vowel),
                   !.targetFormantQs_ = VowelQs(vowel)]
    ELSE f

SetFormantRate(f, rate) == [f EXCEPT !.formantRate_ = rate]

\* vowelA.X + wahPosition_ * (vowelOU.X - vowelA.X), X the k-th table column
WahTarget(pos, k) ==
    vowelData[VOWEL_A + 1][k] * FormantOne
        + pos * (vowelData[VOWEL_OU + 1][k] - vowelData[VOWEL_A + 1][k])
              * (FormantOne \div WahOne)

UpdateTargets_AlwaysWah(f) ==
    [f EXCEPT !.targetFormantFreqs_ =
                  [i \in 1 .. 3 |-> WahTarget(f.wahPosition_, i)],
              !.targetFormantQs_ =
                  [i \in 1 .. 3 |-> WahTarget(f.wahPosition_, i + 3)]]

\* lines 148-175: the targets UpdateParameters smooths toward
UpdateTargets(f) ==
    IF f.filterMode_ = "FILTER_MODE_WAH"
    THEN [f EXCEPT !.targetFormantFreqs_ =
                       [i \in 1 .. 3 |-> WahTarget(f.wahPosition_, i)],
                   !.targetFormantQs_ =
                       [i \in 1 .. 3 |-> WahTarget(f.wahPosition_, i + 3)]]
    ELSE f

\* current += (target - current) * formantRate_
MorphStep(current, target, rate) == current + ScaleBy(target - current, rate)

UpdateParameters_DoubleStep(f) ==
    LET t == UpdateTargets(f)
    IN  [t EXCEPT !.currentFormantFreqs_ =
                      [i \in 1 .. 3 |->
                          MorphStep(@[i], t.targetFormantFreqs_[i],
                                    2 * t.formantRate_)],
                  !.currentFormantQs_ =
                      [i \in 1 .. 3 |->
                          MorphStep(@[i], t.targetFormantQs_[i],
                                    2 * t.formantRate_)]]

UpdateParameters(f) ==
    LET t == UpdateTargets(f)
    IN  [t EXCEPT !.currentFormantFreqs_ =
                      [i \in 1 .. 3 |->
                          MorphStep(@[i], t.targetFormantFreqs_[i],
                                    t.formantRate_)],
                  !.currentFormantQs_ =
                      [i \in 1 .. 3 |->
                          MorphStep(@[i], t.targetFormantQs_[i],
                                    t.formantRate_)]]

(* The filter on its own: any caller, any order of calls, at most          *)
(* MaxFormantUpdates calls of UpdateParameters.  Morph rates are in (0, 1].*)

MaxFormantUpdates == 2

VoiceInputs == {0 - 1, 0, 1}

WahInputs == {0 - (WahOne \div 2), WahOne \div 2, WahOne + WahOne \div 2}

FormantVowels == {VOWEL_I, VOWEL_OU, VOWEL_SCHWA}

MorphRates == {kEngineFormantRate, RateOne \div 2, RateOne}

\* a call that leaves the ghosts of the other calls alone
FormantCall(f, name) ==
    /\ SetFormant(f)
    /\ formant_call' = name
    /\ UNCHANGED in_vowel
    /\ UNCHANGED outside_formant

SetModeCall ==
    \E mode \in FilterModes :
        /\ FormantCall(SetMode(FormantNow, mode), "SetMode")
        /\ UNCHANGED <<in_wah, formant_updates>>

SetVoiceCall ==
    \E voice \in VoiceInputs :
        /\ FormantCall(SetVoice(FormantNow, voice), "SetVoice")
        /\ UNCHANGED <<in_wah, formant_updates>>

SetWahPositionCall ==
    \E pos \in WahInputs :
        /\ FormantCall(SetWahPosition(FormantNow, pos), "SetWahPosition")
        /\ in_wah' = pos
        /\ UNCHANGED formant_updates

SetVowelCall ==
    \E vowel \in FormantVowels :
        /\ FormantCall(SetVowel(FormantNow, vowel), "SetVowel")
        /\ UNCHANGED <<in_wah, formant_updates>>

SetFormantRateCall ==
    \E rate \in MorphRates :
        /\ FormantCall(SetFormantRate(FormantNow, rate), "SetFormantRate")
        /\ UNCHANGED <<in_wah, formant_updates>>

UpdateParametersCall ==
    /\ formant_updates < MaxFormantUpdates
    /\ FormantCall(UpdateParameters(FormantNow), "UpdateParameters")
    /\ formant_updates' = formant_updates + 1
    /\ UNCHANGED in_wah

NextFormant ==
    \/ SetModeCall
    \/ SetVoiceCall
    \/ SetWahPositionCall
    \/ SetVowelCall
    \/ SetFormantRateCall
    \/ UpdateParametersCall

SpecFormant == Init /\ [][NextFormant]_vars

\* the k-th table column of a vowel, in fixed point
TableEntry(vowel, k) == vowelData[vowel + 1][k] * FormantOne

\* the targets in table column order F1, F2, F3, Q1, Q2, Q3
TargetAt(k) ==
    IF k <= 3 THEN targetFormantFreqs_[k] ELSE targetFormantQs_[k - 3]

CurrentAt(k) ==
    IF k <= 3 THEN currentFormantFreqs_[k] ELSE currentFormantQs_[k - 3]

\* C29: in Wah mode SetVowel leaves the targets as they are; right after an
\* UpdateParameters call in Wah mode every target frequency and Q is
\* A + wahPosition * (OU - A) of the VOWEL_A and VOWEL_OU table entries,
\* which is the VOWEL_A entry at position 0 and the VOWEL_OU entry at
\* position 1; wahPosition is the last SetWahPosition argument clamped to
\* [0, 1].
C29_WahInterpolates ==
    /\ [](wahPosition_ = IF in_wah < 0 THEN 0
                         ELSE IF in_wah > WahOne THEN WahOne ELSE in_wah)
    /\ []((filterMode_ = "FILTER_MODE_WAH"
             /\ formant_call = "UpdateParameters")
            => \A k \in 1 .. 6 :
                 /\ TargetAt(k) - TableEntry(VOWEL_A, k)
                        = wahPosition_ * (vowelData[VOWEL_OU + 1][k]
                                            - vowelData[VOWEL_A + 1][k])
                              * (FormantOne \div WahOne)
                 /\ wahPosition_ = 0
                        => TargetAt(k) = TableEntry(VOWEL_A, k)
                 /\ wahPosition_ = WahOne
                        => TargetAt(k) = TableEntry(VOWEL_OU, k))
    /\ [][(filterMode_ = "FILTER_MODE_WAH" /\ formant_call' = "SetVowel")
            => UNCHANGED <<targetFormantFreqs_, targetFormantQs_>>]_vars

\* SetVowel has been called in Wah mode on targets that UpdateParameters
\* had put half way between the two vowels
C29_Witness ==
    /\ filterMode_ = "FILTER_MODE_WAH"
    /\ formant_call = "SetVowel"
    /\ in_wah = WahOne \div 2
    /\ targetFormantFreqs_[1] = 615 * FormantOne
    /\ targetFormantQs_[2] = 9 * FormantOne

\* the smallest and the largest table entry of column k
TableMin(k) ==
    CHOOSE x \in {TableEntry(v, k) : v \in 0 .. numVowels - 1} :
        \A v \in 0 .. numVowels - 1 : x <= TableEntry(v, k)

TableMax(k) ==
    CHOOSE x \in {TableEntry(v, k) : v \in 0 .. numVowels - 1} :
        \A v \in 0 .. numVowels - 1 : x >= TableEntry(v, k)

\* C30: with morph rates in (0, 1], SetVowel changes no current value;
\* UpdateParameters adds morphRate * (target - current) to every current
\* frequency and Q, the new value lies between the old value and the
\* target, and every current value is within the range of its column of
\* the vowel table.
C30_MorphTowardTarget ==
    /\ [](\A k \in 1 .. 6 :
            TableMin(k) <= CurrentAt(k) /\ CurrentAt(k) <= TableMax(k))
    /\ [][formant_call' = "SetVowel"
            => UNCHANGED <<currentFormantFreqs_, currentFormantQs_>>]_vars
    /\ [][formant_updates' = formant_updates + 1
            => \A k \in 1 .. 6 :
                 /\ CurrentAt(k)' - CurrentAt(k)
                        = ScaleBy(TargetAt(k)' - CurrentAt(k), formantRate_)
                 /\ \/ CurrentAt(k) <= CurrentAt(k)'
                          /\ CurrentAt(k)' <= TargetAt(k)'
                    \/ TargetAt(k)' <= CurrentAt(k)'
                          /\ CurrentAt(k)' <= CurrentAt(k)]_vars

\* UpdateParameters has moved F1 half of the way from /a/ toward /i/
C30_Witness ==
    /\ formant_call = "UpdateParameters"
    /\ formantRate_ = RateOne \div 2
    /\ targetFormantFreqs_[1] = TableEntry(VOWEL_I, 1)
    /\ currentFormantFreqs_[1] = 500 * FormantOne

----------------------------------------------------------------------------
(* SynthEngine::Process with the formant filter: UpdateParameters and      *)
(* SetWahPosition (lines 125-126), SetVowel(VOWEL_A) of StartEnvelope,     *)
(* PossiblyUpdateVowel of the diatonic path, and SetVowel(VOWEL_OU) with   *)
(* SetFormantRate(0.001f) of the Release case of UpdateEnvelope.           *)

PossiblyUpdateVowel_Always(f, previous, targetIndex, voice, vowel) ==
    SetVowel(SetVoice(f, voice), vowel)

\* PossiblyUpdateVowel, as far as it writes the filter; voice and vowel are
\* what std::rand() % 3 and GetRandomVowel() deliver when they are called
PossiblyUpdateVowel(f, previous, targetIndex, voice, vowel) ==
    IF targetIndex # previous
    THEN SetVowel(SetVoice(f, voice), vowel)
    ELSE f

ReleaseVowel_RateOnly(f) == SetFormantRate(f, kReleaseFormantRate)

ReleaseVowel_VowelOnly(f) == SetVowel(f, VOWEL_OU)

\* the Release case of UpdateEnvelope, lines 454-455
ReleaseVowel(f) ==
    SetFormantRate(SetVowel(f, VOWEL_OU), kReleaseFormantRate)

FormantTick_NoOpen(button, hold, freq, pot, formant_pot, voice, vowel) ==
    LET e1 == AfterControl(button, hold, freq)
        f1 == SetWahPosition(UpdateParameters(FormantNow), formant_pot)
        f3 == IF PitchUpdated(e1, button, hold, freq)
              THEN PossiblyUpdateVowel(f1, previousTargetIndex_,
                                       DetermineTargetIndex(pot), voice, vowel)
              ELSE f1
    IN  IF ~RenderSkipped(e1, delay_audible) /\ e1.adsr_state_ = "Release"
        THEN ReleaseVowel(f3)
        ELSE f3

\* the filter after one Process call that finds it as f
FormantTickFrom(f, button, hold, freq, pot, formant_pot, voice, vowel) ==
    LET e1 == AfterControl(button, hold, freq)
        f1 == SetWahPosition(UpdateParameters(f), formant_pot)
        f2 == IF e1.started THEN SetVowel(f1, VOWEL_A) ELSE f1
        f3 == IF PitchUpdated(e1, button, hold, freq)
              THEN PossiblyUpdateVowel(f2, previousTargetIndex_,
                                       DetermineTargetIndex(pot), voice, vowel)
              ELSE f2
    IN  IF ~RenderSkipped(e1, delay_audible) /\ e1.adsr_state_ = "Release"
        THEN ReleaseVowel(f3)
        ELSE f3

\* the filter after one Process call
FormantTick(button, hold, freq, pot, formant_pot, voice, vowel) ==
    FormantTickFrom(FormantNow, button, hold, freq, pot, formant_pot, voice,
                    vowel)

(* Short runs with the buttons, hold and the pitch pot free at every tick: *)
(* at most MaxVowelCalls Process calls.                                    *)

MaxVowelCalls == 3

VowelPots == {0, PotMax}

VoiceDraws == {VOICE_NEUTRAL, 2}

VowelDraws == {VOWEL_I, VOWEL_SCHWA}

ProcessVowel ==
    \E button, hold, freq \in BOOLEAN, pot \in VowelPots,
       voice \in VoiceDraws, vowel \in VowelDraws :
      \E draw \in DrawsOf(button, hold, freq, pot) :
        /\ formant_updates < MaxVowelCalls
        /\ Tick(button, hold, freq, pot, 0, draw)
        /\ SetFormant(FormantTick(button, hold, freq, pot, WahOne \div 2,
                                  voice, vowel))
        /\ in_wah' = WahOne \div 2
        /\ in_vowel' = vowel
        /\ formant_call' = "Process"
        /\ formant_updates' = formant_updates + 1

NextVowel == ProcessVowel

SpecVowel == Init /\ [][NextVowel]_vars

\* this step is a Process call that does not run UpdatePitchWithScale
OtherTick == last_call' = "Process" /\ ~ScaleTick

\* the formant targets are the table entry of a vowel
TargetsOf(vowel) ==
    /\ targetFormantFreqs_ = VowelFreqs(vowel)
    /\ targetFormantQs_ = VowelQs(vowel)

\* the tick leaves the targets on the table entry of a vowel
TargetsAfter(vowel) ==
    /\ targetFormantFreqs_' = VowelFreqs(vowel)
    /\ targetFormantQs_' = VowelQs(vowel)

\* C28: a tick that runs UpdatePitchWithScale with a degree other than the
\* stored one stores the new degree and loads the targets of the vowel
\* std::rand() delivers; with the stored degree it leaves the stored
\* degree, the voice and the targets as they were when it was called (the
\* VOWEL_A targets when the tick started the note, the old ones otherwise).
\* In both cases the Release step that follows in the same tick loads
\* VOWEL_OU.  The stored degree is -1 before the first call and is kept by
\* every tick that does not run UpdatePitchWithScale.
C28_VowelDrawnOnDegreeChange ==
    /\ [](formant_updates = 0 => previousTargetIndex_ = 0 - 1)
    /\ [][OtherTick => previousTargetIndex_' = previousTargetIndex_]_vars
    /\ [][ScaleTick
            => LET degree == DetermineTargetIndex(in_pot')
                   e1 == AfterControl(was_button_pressed_', in_hold',
                                      was_freq_select_button_pressed_')
               IN  /\ previousTargetIndex_' = degree
                   /\ currentVoice_' = currentVoice_
                   /\ IF e1.adsr_state_ = "Release"
                      THEN TargetsAfter(VOWEL_OU)
                      ELSE IF degree # previousTargetIndex_
                      THEN TargetsAfter(in_vowel')
                      ELSE IF started'
                      THEN TargetsAfter(VOWEL_A)
                      ELSE UNCHANGED <<targetFormantFreqs_,
                                       targetFormantQs_>>]_vars

\* a first note stored the top degree; the button went up and came down
\* again on the same degree, and the second note's first tick has kept the
\* VOWEL_A targets of StartEnvelope although std::rand() had VOWEL_I ready
C28_Witness ==
    /\ formant_updates = 3
    /\ was_button_pressed_ /\ ~in_hold /\ ~was_freq_select_button_pressed_
    /\ started
    /\ adsr_value_ = AttackIncrement
    /\ previousTargetIndex_ = kNumNotes - 1
    /\ in_vowel = VOWEL_I
    /\ TargetsOf(VOWEL_A)

----------------------------------------------------------------------------
(* The envelope's hold on the vowel and on the morph rate (SpecVowel).     *)

\* this step is a Process call that runs UpdateEnvelope in the Release state
ReleaseTick_Formant ==
    /\ last_call' = "Process"
    /\ AfterControl(was_button_pressed_', in_hold',
                    was_freq_select_button_pressed_').adsr_state_ = "Release"

\* this step is a Process call that runs UpdatePitchWithScale with a degree
\* other than the stored one
DegreeChangeTick ==
    ScaleTick /\ DetermineTargetIndex(in_pot') # previousTargetIndex_

\* C31: at the end of every tick on which the envelope was updated in the
\* Release state, the tick that reaches Idle included, the formant target
\* frequencies and Qs are the VOWEL_OU table entry, also when the pitch
\* path drew another vowel earlier in the tick.
C31_ReleaseClosesVowel ==
    [][ReleaseTick_Formant => TargetsAfter(VOWEL_OU)]_vars

\* freq-select was let go with the voice button down: the tick stopped the
\* note, the pitch path stored a first degree and had VOWEL_I drawn, and the
\* release step has put VOWEL_OU in its place
C31_Witness ==
    /\ formant_updates = 2
    /\ adsr_state_ = "Release"
    /\ was_button_pressed_ /\ ~in_hold /\ ~was_freq_select_button_pressed_
    /\ previousTargetIndex_ # 0 - 1
    /\ in_vowel = VOWEL_I
    /\ TargetsOf(VOWEL_OU)

C36_RateChangesOnce ==
    /\ [](formantRate_ \in {kEngineFormantRate, kReleaseFormantRate})
    /\ [][formantRate_' = IF ReleaseTick_Formant THEN kReleaseFormantRate
                          ELSE formantRate_]_vars
    /\ [][formantRate_ = kReleaseFormantRate
            => formantRate_' = kReleaseFormantRate]_vars

\* a note was released and a new one has started: the rate is still 0.001
C36_Witness ==
    /\ formant_updates = 3
    /\ started
    /\ adsr_state_ = "Attack"
    /\ formantRate_ = kReleaseFormantRate

----------------------------------------------------------------------------
(* The note-on flag and the envelope, under arbitrary button inputs (Spec) *)

\* C32: in every state Process calls reach after Init, an envelope in
\* Attack, Decay or Sustain has the note-on flag true and an idle envelope
\* has it false; so a false flag means Idle or Release.
C32_FlagFitsEnvelope ==
    /\ adsr_state_ \in Sounding => is_note_on_
    /\ adsr_state_ = "Idle" => ~is_note_on_
    /\ ~is_note_on_ => adsr_state_ \in Stopped

\* the hold toggle has switched a note off: the envelope is on its way down
\* with the flag already false
C32_Witness ==
    /\ adsr_state_ = "Release"
    /\ ~is_note_on_
    /\ was_button_pressed_
    /\ adsr_value_ > 0

\* C33: at the end of every tick with freq-select held the envelope is in
\* Attack, Decay or Sustain and the note-on flag is true, whatever the
\* voice button and hold are; the envelope the freq-select branch finds
\* after the edge logic always has the flag true, so its StartEnvelope call
\* never runs.
C33_FreqSelectSounds ==
    [][was_freq_select_button_pressed_'
         => /\ adsr_state_' \in Sounding
            /\ is_note_on_'
            /\ FreqSelectEdges(Current, was_freq_select_button_pressed_,
                               TRUE).is_note_on_]_vars

\* freq-select has been held long enough for the envelope to reach Sustain
\* with the voice button down as well
C33_Witness ==
    /\ was_freq_select_button_pressed_
    /\ was_button_pressed_
    /\ adsr_state_ = "Sustain"
    /\ is_note_on_

----------------------------------------------------------------------------
(* The fundamental between freq-select ticks (SpecFundamental)             *)

\* C37: a tick on which freq-select is not held leaves fundamentalFreq_ as
\* it was, whether the diatonic path runs on it or not; the fundamental
\* set while freq-select was held stays the base of the scale.
C37_FundamentalKept ==
    [][(last_call' = "Process" /\ ~was_freq_select_button_pressed_')
         => fundamentalFreq_' = fundamentalFreq_]_vars

\* freq-select put the fundamental at the top of its range, and a tick of
\* the diatonic path on the top degree has left it there
C37_Witness ==
    /\ fundamentalFreq_ = kMaxFundamental
    /\ ~was_freq_select_button_pressed_
    /\ was_button_pressed_ /\ ~in_hold
    /\ previousTargetIndex_ = kNumNotes - 1

----------------------------------------------------------------------------
(* The random voice and vowel of PossiblyUpdateVowel.  std::rand() is an   *)
(* input; the voice is rand() % 3 cast to VoiceType, whose values are 0    *)
(* and 1: the cast of 2 has no specified result, so any value may reach    *)
(* SetVoice.  The vowel is rand() % 10 (GetRandomVowel).                   *)

RandValues == {9, 10, 11}

\* static_cast<FormantFilter::VoiceType>(randomVoice), line 525
VoiceTypeOf(randomVoice) ==
    IF randomVoice \in VOICE_NEUTRAL .. VOICE_COUNT
    THEN {randomVoice}
    ELSE {VOICE_NEUTRAL, VOICE_COUNT, randomVoice}

\* GetRandomVowel with the value std::rand() delivered
GetRandomVowel(r) == r % numVowels

(* Notes played with the voice button alone (hold and freq-select off),    *)
(* at most MaxVowelCalls Process calls, every draw free.                   *)

ProcessVoiceDraw ==
    \E button \in BOOLEAN, pot \in VowelPots, r1 \in RandValues,
       r2 \in RandValues :
      \E voice \in VoiceTypeOf(r1 % 3),
         draw \in DrawsOf(button, FALSE, FALSE, pot) :
        /\ formant_updates < MaxVowelCalls
        /\ Tick(button, FALSE, FALSE, pot, 0, draw)
        /\ SetFormant(FormantTick(button, FALSE, FALSE, pot, WahOne \div 2,
                                  voice, GetRandomVowel(r2)))
        /\ in_wah' = WahOne \div 2
        /\ in_vowel' = GetRandomVowel(r2)
        /\ formant_call' = "Process"
        /\ formant_updates' = formant_updates + 1

NextVoiceDraw == ProcessVoiceDraw

SpecVoiceDraw == Init /\ [][NextVoiceDraw]_vars

----------------------------------------------------------------------------
(* The formant pot.  Notes played with the voice button alone, the         *)
(* formant pot free at every tick, at most MaxVowelCalls Process calls.    *)

WahPots == {0, WahOne \div 2, WahOne}

ProcessWah ==
    \E button \in BOOLEAN, pot \in VowelPots, formant_pot \in WahPots,
       vowel \in VowelDraws :
      \E draw \in DrawsOf(button, FALSE, FALSE, pot) :
        /\ formant_updates < MaxVowelCalls
        /\ Tick(button, FALSE, FALSE, pot, 0, draw)
        /\ SetFormant(FormantTick(button, FALSE, FALSE, pot, formant_pot,
                                  VOICE_NEUTRAL, vowel))
        /\ in_wah' = formant_pot
        /\ in_vowel' = vowel
        /\ formant_call' = "Process"
        /\ formant_updates' = formant_updates + 1

NextWah == ProcessWah

SpecWah == Init /\ [][NextWah]_vars

\* a filter without its stored wah position
WithoutWah(f) == [f EXCEPT !.wahPosition_ = 0]

\* the filter this step has produced
FormantAfter ==
    Formant(filterMode_', currentVoice_', wahPosition_', formantRate_',
            targetFormantFreqs_', targetFormantQs_', currentFormantFreqs_',
            currentFormantQs_')

\* C34: the filter stays in Normal mode, and a Process call leaves the same
\* mode, voice, rate, targets and current values whatever the formant pot
\* of this call is and whatever wah position earlier calls have stored;
\* the pot decides the stored wah position and nothing else.  (The
\* envelope, the pitch state and the sample of a call are computed without
\* the formant pot and the filter.)
C34_FormantPotNoInfluence ==
    /\ [](filterMode_ = "FILTER_MODE_NORMAL")
    /\ [][last_call' = "Process" =>
            /\ wahPosition_' = in_wah'
            /\ \A stored \in WahPots, formant_pot \in WahPots :
                 WithoutWah(FormantTickFrom(
                     [FormantNow EXCEPT !.wahPosition_ = stored],
                     was_button_pressed_', in_hold',
                     was_freq_select_button_pressed_', in_pot', formant_pot,
                     VOICE_NEUTRAL, in_vowel'))
                   = WithoutWah(FormantAfter)]_vars

\* two calls with the pot at its ends: the last one stored the upper end,
\* the note of the first call is in its attack with the vowel it drew
C34_Witness ==
    /\ formant_updates = 2
    /\ wahPosition_ = WahOne
    /\ in_wah = WahOne
    /\ adsr_state_ = "Attack"
    /\ TargetsOf(VOWEL_I)
    /\ currentFormantFreqs_ # VowelFreqs(VOWEL_I)

----------------------------------------------------------------------------
(* Standby, specification SpecDevice *)

\* this step stores STATE_STANDBY
EntersStandby == state_ # "STATE_STANDBY" /\ state_' = "STATE_STANDBY"

\* the main loop starts an iteration in STATE_SYNTH
SynthIteration == sm_pc = "loop" /\ state_ = "STATE_SYNTH" /\ sm_pc' # sm_pc

\* this step is a call of SynthEngine::Process that changed the engine
EngineStep == engine_vars' # engine_vars

\* a STATE_SYNTH iteration leaves the device state alone whatever standby
\* is, and the engine runs only in STATE_SYNTH with the converter on
C39_SynthIgnoresStandby ==
    /\ [][SynthIteration => state_' = "STATE_SYNTH"]_vars
    /\ [][EntersStandby => standby']_vars
    /\ [][EngineStep => /\ state_ = "STATE_SYNTH"
                        /\ state_' = "STATE_SYNTH"
                        /\ analog_running]_vars

\* C39 as stated: STATE_STANDBY is stored only over STATE_IDLE; a standby
\* request in STATE_SYNTH neither changes the state in its iteration nor
\* later (STATE_STANDBY is stored only with the storing iteration's own
\* standby raised); SynthEngine::Process runs only in STATE_SYNTH.
C39_StandbyOnlyFromIdle ==
    /\ [][EntersStandby => state_ = "STATE_IDLE"]_vars
    /\ C39_SynthIgnoresStandby

\* C39, amended: STATE_STANDBY is stored only by an iteration that found
\* STATE_IDLE; when that iteration saw the play button pressed it has
\* stored STATE_SYNTH first, so the stored state goes from STATE_SYNTH to
\* STATE_STANDBY.
C39_StandbyOnlyInIdleBranch ==
    /\ [][EntersStandby =>
            \/ sm_pc = "loop" /\ state_ = "STATE_IDLE"
            \/ sm_pc = "idle_standby" /\ state_ = "STATE_SYNTH"]_vars
    /\ [](sm_pc = "idle_standby" =>
            state_ = "STATE_SYNTH" /\ play_button /\ standby)
    /\ C39_SynthIgnoresStandby

\* a standby request arrived in STATE_SYNTH with a note sounding, and the
\* iteration goes on to getActive()
C39_Witness ==
    /\ state_ = "STATE_SYNTH"
    /\ sm_pc = "synth"
    /\ standby
    /\ adsr_state_ = "Attack"

----------------------------------------------------------------------------
(* ConsonantGenerator (consonant_generator.h).  The sample values, the     *)
(* phase and the burst filter are left out: no branch reads them.  The     *)
(* lengths are the integers Start computes from its durations.             *)

ConsonantTypes == {"NONE", "B", "D", "G"}

ConsonantStates == {"IDLE", "CLOSURE", "BURST", "TRANSITION", "DONE"}

\* static_cast<int>(duration * sampleRate_) for the durations handed to Start
SampleCounts == {0 - 1, 0, 1, 2}

MaxConsonantCalls == 9

IsActive(state) == state # "IDLE" /\ state # "DONE"

\* Reset(), called by Init, Start and Stop
ConsonantReset ==
    /\ type_' = "NONE"
    /\ sampleCounter_' = 0
    /\ consonant_state_' = "IDLE"

ConsonantStart ==
    \E type \in ConsonantTypes, closure, burst, transition \in SampleCounts :
        /\ type_' = type
        /\ closureSamples_' = closure
        /\ burstSamples_' = burst
        /\ transitionSamples_' = transition
        /\ consonant_state_' = "CLOSURE"
        /\ sampleCounter_' = 0
        /\ consonant_calls' = 0
        /\ consonant_out' = "none"
        /\ UNCHANGED outside_consonant

\* the state and the counter after the switch of Process
ConsonantSwitch(state, counter, limit, next) ==
    IF counter >= limit THEN <<next, 0>> ELSE <<state, counter>>

ConsonantProcess ==
    /\ consonant_calls < MaxConsonantCalls
    /\ consonant_calls' = consonant_calls + 1
    /\ IF consonant_state_ = "IDLE" \/ consonant_state_ = "DONE"
          \/ type_ = "NONE"
       THEN /\ consonant_out' = "zero"
            /\ UNCHANGED <<consonant_state_, sampleCounter_>>
       ELSE LET after ==
                    CASE consonant_state_ = "CLOSURE" ->
                           ConsonantSwitch("CLOSURE", sampleCounter_,
                                           closureSamples_, "BURST")
                      [] consonant_state_ = "BURST" ->
                           ConsonantSwitch("BURST", sampleCounter_,
                                           burstSamples_, "TRANSITION")
                      [] consonant_state_ = "TRANSITION" ->
                           ConsonantSwitch("TRANSITION", sampleCounter_,
                                           transitionSamples_, "DONE")
            IN  /\ consonant_state_' = after[1]
                /\ sampleCounter_' = after[2] + 1
                /\ consonant_out' = "sample"
    /\ UNCHANGED <<type_, closureSamples_, burstSamples_, transitionSamples_>>
    /\ UNCHANGED outside_consonant

\* Stop(), and Init(sampleRate): Reset()
ConsonantStop ==
    /\ ConsonantReset
    /\ consonant_calls' = 0
    /\ consonant_out' = "none"
    /\ UNCHANGED <<closureSamples_, burstSamples_, transitionSamples_>>
    /\ UNCHANGED outside_consonant

NextConsonant ==
    \/ ConsonantStart
    \/ ConsonantProcess
    \/ ConsonantStop

SpecConsonant == Init /\ [][NextConsonant]_vars

\* this step is a Process call
ConsonantProcessStep == consonant_calls' = consonant_calls + 1

\* the order of the states
ConsonantOrder ==
    {<<"CLOSURE", "BURST">>, <<"BURST", "TRANSITION">>,
     <<"TRANSITION", "DONE">>}

\* Process calls that take a started generator to DONE: the closure lasts
\* closureSamples_ + 1 calls, the burst and the transition as many calls as
\* they have samples, and each at least one
CallsToDone ==
    (IF closureSamples_ > 0 THEN closureSamples_ ELSE 0) + 1
    + (IF burstSamples_ > 1 THEN burstSamples_ ELSE 1)
    + (IF transitionSamples_ > 1 THEN transitionSamples_ ELSE 1)

\* a Process call keeps the state or moves it one place along the order
ConsonantInOrder ==
    [][ConsonantProcessStep =>
          \/ consonant_state_' = consonant_state_
          \/ <<consonant_state_, consonant_state_'>> \in ConsonantOrder]_vars

\* in DONE the generator is not active, stays in DONE and returns 0
ConsonantDoneIsFinal ==
    /\ [](consonant_state_ = "DONE" => ~IsActive(consonant_state_))
    /\ [][(ConsonantProcessStep /\ consonant_state_ = "DONE") =>
             consonant_state_' = "DONE" /\ consonant_out' = "zero"]_vars

\* C40 as stated: after Start with any consonant type, Process calls move
\* the generator through CLOSURE, BURST, TRANSITION in order, it is in DONE
\* after CallsToDone calls at the latest, and from then on it is not active
\* and Process returns 0.
C40_RunsToDone ==
    /\ ConsonantInOrder
    /\ []((consonant_state_ # "IDLE" /\ consonant_calls >= CallsToDone)
             => consonant_state_ = "DONE")
    /\ ConsonantDoneIsFinal

\* what holds of C40: the same for the types B, D and G
C40_VoicedRunsToDone ==
    /\ ConsonantInOrder
    /\ []((consonant_state_ # "IDLE" /\ type_ # "NONE"
              /\ consonant_calls >= CallsToDone)
             => consonant_state_ = "DONE")
    /\ []((IsActive(consonant_state_) /\ type_ # "NONE")
             => consonant_calls < CallsToDone)
    /\ ConsonantDoneIsFinal

\* Start(NONE, ...) leaves the generator active in CLOSURE for good
C40_StuckInClosure ==
    [][(type_ = "NONE" /\ consonant_state_ = "CLOSURE" /\ ConsonantProcessStep)
          => /\ consonant_state_' = "CLOSURE"
             /\ IsActive(consonant_state_')
             /\ consonant_out' = "zero"]_vars

\* a generator started with B has reached DONE and was called once more
C40_Witness ==
    /\ type_ = "B"
    /\ consonant_state_ = "DONE"
    /\ consonant_calls = CallsToDone + 1
    /\ consonant_out = "zero"
    /\ closureSamples_ = 2 /\ burstSamples_ = 2 /\ transitionSamples_ = 2

====
